---- MODULE Spec2Model ----
(***************************************************************************)
(* Per-room audio buffering and dispatch engine of backend/app.py          *)
(* (class RoomAudioProcessor and the acceptance filter of                  *)
(* _transcribe_with_whisper).                                              *)
(*                                                                         *)
(* Threads: NumDispatchers callers of add_audio_chunk, one worker thread   *)
(* per created room queue (_process_room_queue followed by _cleanup_room), *)
(* and the caller of shutdown().  A queue.Queue object and the thread that *)
(* is created together with it share one identifier (1..MaxWorkers).       *)
(*                                                                         *)
(* Encodings: timestamps are milliseconds (naturals), the Python value     *)
(* None of a timestamp is the number None; no_speech_prob is counted in    *)
(* hundredths (0.7 is 70); audio_bytes is a record of a unique identity    *)
(* and its length; a text is a TLA+ string with " " as its only            *)
(* whitespace character.                                                   *)
(*                                                                         *)
(* History variables, read by no action: chunk_seq numbers the calls of    *)
(* add_audio_chunk, add_result is what each returned, put_queue the queue  *)
(* a chunk was put into, race the pairs of calls that were both past the   *)
(* first check of a room without a queue, consumed counts how often a      *)
(* chunk was handed to _process_audio_for_transcription, flush_log holds   *)
(* every finished call of _process_buffered_audio, put_order lists the     *)
(* chunks in the order of their puts.  shutdown_call is where the caller   *)
(* of shutdown() stands.                                                   *)
(*                                                                         *)
(* buffered_audio is where each room thread stands inside                  *)
(* _process_buffered_audio and query_calls where each /query request       *)
(* stands; the locks whisper_lock, chromadb_lock and embedding_lock are    *)
(* held by the threads that stand inside their with blocks.  Only SpecLocks*)
(* takes a flush apart into these steps; elsewhere a flush is one step.    *)
(***************************************************************************)
EXTENDS Integers, Sequences, FiniteSets, TLC

VARIABLES room_queues, room_threads, active_rooms, room_locks,
          shutdown_event, shutdown_call, room_audio_buffers, queues, threads, callers,
          chunk_seq, add_result, put_queue, put_order, race, consumed, flush_log,
          buffered_audio, query_calls

vars == <<room_queues, room_threads, active_rooms, room_locks,
          shutdown_event, shutdown_call, room_audio_buffers, queues, threads, callers,
          chunk_seq, add_result, put_queue, put_order, race, consumed, flush_log,
          buffered_audio, query_calls>>

-----------------------------------------------------------------------------
(* Bounds of the model *)

NumDispatchers == 2
MaxChunks == 2
MaxWorkers == 2
\* number of consecutive 0.1 s empty polls that one PollEmpty step stands for
PollStride == 300
\* calls of shutdown()
MaxShutdowns == 2

(* Program constants *)

None == -1
MAX_AUDIO_FILE_SIZE == 10 * 1024 * 1024
QueueMaxSize == 50
max_empty_polls == 600
MIN_BUFFER_SIZE == 500000
MAX_BUFFER_SIZE == 1500000
MIN_AUDIO_DURATION == 10
WHISPER_OPTIMAL_DURATION == 30
MIN_CHUNK_COUNT == 500
FORCE_PROCESS_TIMEOUT == 45
FinalFlushThreshold == 5000

Dispatchers == 1..NumDispatchers
Workers == 1..MaxWorkers
ChunkIds == 1..MaxChunks

-----------------------------------------------------------------------------
(* dict helpers: a Python dict is a function whose DOMAIN is its key set *)

DictSet(d, k, v) == [x \in (DOMAIN d) \cup {k} |-> IF x = k THEN v ELSE d[x]]

DictDel(d, k) == [x \in (DOMAIN d) \ {k} |-> d[x]]

EmptyDict == [x \in {} |-> 0]

-----------------------------------------------------------------------------
(* str helpers *)

RECURSIVE LStrip(_)
LStrip(s) ==
    IF Len(s) > 0 /\ SubSeq(s, 1, 1) = " " THEN LStrip(SubSeq(s, 2, Len(s))) ELSE s

RECURSIVE RStrip(_)
RStrip(s) ==
    IF Len(s) > 0 /\ SubSeq(s, Len(s), Len(s)) = " "
    THEN RStrip(SubSeq(s, 1, Len(s) - 1)) ELSE s

\* str.strip()
Strip(s) == RStrip(LStrip(s))

\* str.lower(), on the letters the model's texts use
LowerChar(c) ==
    CASE c = "T" -> "t"
      [] c = "H" -> "h"
      [] c = "O" -> "o"
      [] c = "K" -> "k"
      [] OTHER -> c

RECURSIVE Lower(_)
Lower(s) ==
    IF Len(s) = 0 THEN s
    ELSE LowerChar(SubSeq(s, 1, 1)) \o Lower(SubSeq(s, 2, Len(s)))

\* str.split() without argument: the maximal runs of non-whitespace
RECURSIVE SplitFrom(_, _, _)
SplitFrom(s, cur, acc) ==
    IF Len(s) = 0
    THEN IF cur = "" THEN acc ELSE Append(acc, cur)
    ELSE LET c == SubSeq(s, 1, 1)
             rest == SubSeq(s, 2, Len(s))
         IN IF c = " "
            THEN SplitFrom(rest, "", IF cur = "" THEN acc ELSE Append(acc, cur))
            ELSE SplitFrom(rest, cur \o c, acc)

Split(s) == SplitFrom(s, "", <<>>)

\* pattern in s
RECURSIVE Contains(_, _)
Contains(s, pattern) ==
    IF Len(s) < Len(pattern) THEN FALSE
    ELSE IF SubSeq(s, 1, Len(pattern)) = pattern THEN TRUE
    ELSE Contains(SubSeq(s, 2, Len(s)), pattern)

\* str.startswith
StartsWith(s, prefix) ==
    Len(s) >= Len(prefix) /\ SubSeq(s, 1, Len(prefix)) = prefix

IsPrefix(p, q) == Len(p) <= Len(q) /\ SubSeq(q, 1, Len(p)) = p

-----------------------------------------------------------------------------
(* Room buffers (room_audio_buffers is a defaultdict) *)

DefaultBuffer ==
    [chunks |-> <<>>, total_bytes |-> 0, last_chunk_time |-> 0,
     first_chunk_time |-> None, producer_id |-> "None"]

\* self.room_audio_buffers[key]: a missing key reads as the default value
GetBuffer(buffers, key) ==
    IF key \in DOMAIN buffers THEN buffers[key] ELSE DefaultBuffer

\* f"{room_id}_{producer_id}"
BufferKey(room_id, producer_id) == room_id \o "_" \o producer_id

\* an append that puts the chunk in front of the buffered ones
PrependChunk(buffer, audio_item) ==
    [chunks |-> <<[data |-> audio_item.audio_bytes.id,
                   timestamp |-> audio_item.timestamp,
                   size |-> audio_item.audio_bytes.len]>> \o buffer.chunks,
     total_bytes |-> buffer.total_bytes + audio_item.audio_bytes.len,
     last_chunk_time |-> audio_item.timestamp,
     first_chunk_time |-> IF buffer.first_chunk_time = None
                          THEN audio_item.timestamp
                          ELSE buffer.first_chunk_time,
     producer_id |-> audio_item.producer_id]

\* an append that assigns the chunk's length to total_bytes
AppendChunkSetsTotal(buffer, audio_item) ==
    [chunks |-> Append(buffer.chunks,
                       [data |-> audio_item.audio_bytes.id,
                        timestamp |-> audio_item.timestamp,
                        size |-> audio_item.audio_bytes.len]),
     total_bytes |-> audio_item.audio_bytes.len,
     last_chunk_time |-> audio_item.timestamp,
     first_chunk_time |-> IF buffer.first_chunk_time = None
                          THEN audio_item.timestamp
                          ELSE buffer.first_chunk_time,
     producer_id |-> audio_item.producer_id]

\* an append that sets first_chunk_time every time
AppendChunkSetsFirst(buffer, audio_item) ==
    [chunks |-> Append(buffer.chunks,
                       [data |-> audio_item.audio_bytes.id,
                        timestamp |-> audio_item.timestamp,
                        size |-> audio_item.audio_bytes.len]),
     total_bytes |-> buffer.total_bytes + audio_item.audio_bytes.len,
     last_chunk_time |-> audio_item.timestamp,
     first_chunk_time |-> audio_item.timestamp,
     producer_id |-> audio_item.producer_id]

\* lines 618-630: append the chunk and update the byte/time bookkeeping
AppendChunk(buffer, audio_item) ==
    [chunks |-> Append(buffer.chunks,
                       [data |-> audio_item.audio_bytes.id,
                        timestamp |-> audio_item.timestamp,
                        size |-> audio_item.audio_bytes.len]),
     total_bytes |-> buffer.total_bytes + audio_item.audio_bytes.len,
     last_chunk_time |-> audio_item.timestamp,
     first_chunk_time |-> IF buffer.first_chunk_time = None
                          THEN audio_item.timestamp
                          ELSE buffer.first_chunk_time,
     producer_id |-> audio_item.producer_id]

\* a reset that goes back to the default buffer and forgets the baseline
ClearedBufferNoBaseline(timestamp, producer_id) ==
    [chunks |-> <<>>, total_bytes |-> 0, last_chunk_time |-> 0,
     first_chunk_time |-> None, producer_id |-> producer_id]

\* lines 679-685: the buffer that replaces a flushed one
ClearedBuffer(timestamp, producer_id) ==
    [chunks |-> <<>>, total_bytes |-> 0, last_chunk_time |-> timestamp,
     first_chunk_time |-> None, producer_id |-> producer_id]

-----------------------------------------------------------------------------
(* Flush policy, lines 634-672.  time_since_first is in milliseconds here;  *)
(* the code divides by 1000.0 and compares with the constants in seconds.   *)

\* the same branches with the duration rule tested before the size rules
FlushDecisionDurationFirst(time_since_first, total_bytes, chunk_count) ==
    IF time_since_first >= WHISPER_OPTIMAL_DURATION * 1000 /\ total_bytes >= 100000
    THEN "Whisper optimal duration"
    ELSE IF time_since_first >= MIN_AUDIO_DURATION * 1000 /\ total_bytes >= 200000
    THEN "minimum meaningful duration"
    ELSE IF total_bytes >= MIN_BUFFER_SIZE
    THEN "sufficient audio data"
    ELSE IF total_bytes >= MAX_BUFFER_SIZE
    THEN "max buffer size"
    ELSE IF time_since_first >= FORCE_PROCESS_TIMEOUT * 1000
    THEN "forced timeout"
    ELSE IF chunk_count >= MIN_CHUNK_COUNT /\ total_bytes >= 300000
    THEN "substantial chunk accumulation"
    ELSE ""

\* the same branches with the test of MAX_BUFFER_SIZE before MIN_BUFFER_SIZE
FlushDecisionMaxFirst(time_since_first, total_bytes, chunk_count) ==
    IF time_since_first >= WHISPER_OPTIMAL_DURATION * 1000 /\ total_bytes >= 100000
    THEN "Whisper optimal duration"
    ELSE IF total_bytes >= MAX_BUFFER_SIZE
    THEN "max buffer size"
    ELSE IF total_bytes >= MIN_BUFFER_SIZE
    THEN "sufficient audio data"
    ELSE IF time_since_first >= MIN_AUDIO_DURATION * 1000 /\ total_bytes >= 200000
    THEN "minimum meaningful duration"
    ELSE IF time_since_first >= FORCE_PROCESS_TIMEOUT * 1000
    THEN "forced timeout"
    ELSE IF chunk_count >= MIN_CHUNK_COUNT /\ total_bytes >= 300000
    THEN "substantial chunk accumulation"
    ELSE ""

\* a policy whose thresholds must be exceeded, not reached
FlushDecisionStrict(time_since_first, total_bytes, chunk_count) ==
    IF time_since_first > WHISPER_OPTIMAL_DURATION * 1000 /\ total_bytes > 100000
    THEN "Whisper optimal duration"
    ELSE IF total_bytes > MIN_BUFFER_SIZE
    THEN "sufficient audio data"
    ELSE IF total_bytes > MAX_BUFFER_SIZE
    THEN "max buffer size"
    ELSE IF time_since_first > MIN_AUDIO_DURATION * 1000 /\ total_bytes > 200000
    THEN "minimum meaningful duration"
    ELSE IF time_since_first > FORCE_PROCESS_TIMEOUT * 1000
    THEN "forced timeout"
    ELSE IF chunk_count > MIN_CHUNK_COUNT /\ total_bytes > 300000
    THEN "substantial chunk accumulation"
    ELSE ""

FlushDecision(time_since_first, total_bytes, chunk_count) ==
    IF time_since_first >= WHISPER_OPTIMAL_DURATION * 1000 /\ total_bytes >= 100000
    THEN "Whisper optimal duration"
    ELSE IF total_bytes >= MIN_BUFFER_SIZE
    THEN "sufficient audio data"
    ELSE IF total_bytes >= MAX_BUFFER_SIZE
    THEN "max buffer size"
    ELSE IF time_since_first >= MIN_AUDIO_DURATION * 1000 /\ total_bytes >= 200000
    THEN "minimum meaningful duration"
    ELSE IF time_since_first >= FORCE_PROCESS_TIMEOUT * 1000
    THEN "forced timeout"
    ELSE IF chunk_count >= MIN_CHUNK_COUNT /\ total_bytes >= 300000
    THEN "substantial chunk accumulation"
    ELSE ""

\* a decision that also looks at the shutdown event
ShouldProcessUnlessShutdown(reason) == reason # "" /\ ~shutdown_event

\* should_process
ShouldProcess(reason) == reason # ""

-----------------------------------------------------------------------------
(* Acceptance filter of _transcribe_with_whisper, lines 928-972 *)

RECURSIVE CountOf(_, _)
CountOf(words, word) ==
    IF words = <<>> THEN 0
    ELSE (IF Head(words) = word THEN 1 ELSE 0) + CountOf(Tail(words), word)

\* max(word_counts.values())
MaxWordCount(words) ==
    LET counts == {CountOf(words, words[i]) : i \in DOMAIN words}
    IN CHOOSE m \in counts : \A n \in counts : n <= m

\* line 968: some segment has no_speech_prob < 0.8
ConfidentSegments(segments) ==
    \E i \in DOMAIN segments : segments[i] < 80

\* Check 1 (line 932)
SpeechCheck1(no_speech_prob) == no_speech_prob < 70

\* a check 2 that leaves a text of at most 5 words to check 1
SpeechCheck2LongOnly(transcription, has_meaningful_speech) ==
    IF transcription # "" /\ Len(Strip(transcription)) > 0
    THEN LET words == Split(Lower(transcription))
         IN IF Len(words) > 5
            THEN ~(MaxWordCount(words) * 10 > 6 * Len(words))
            ELSE has_meaningful_speech
    ELSE has_meaningful_speech

\* Check 2 (lines 937-964), given the outcome of check 1
SpeechCheck2(transcription, has_meaningful_speech) ==
    IF transcription # "" /\ Len(Strip(transcription)) > 0
    THEN LET words == Split(Lower(transcription))
         IN IF Len(words) > 5
            THEN LET max_word_count == MaxWordCount(words)
                     has_teacher_pattern == Contains(Lower(transcription), "teacher")
                 IN IF max_word_count * 10 > 6 * Len(words)
                    THEN FALSE
                    ELSE IF has_teacher_pattern /\ max_word_count * 10 > 3 * Len(words)
                    THEN FALSE
                    ELSE TRUE
            ELSE TRUE
    ELSE has_meaningful_speech

\* Check 3 (lines 967-972), given the outcome of checks 1 and 2
SpeechCheck3(segments, has_meaningful_speech) ==
    IF ConfidentSegments(segments) /\ ~has_meaningful_speech
    THEN TRUE
    ELSE has_meaningful_speech

\* has_meaningful_speech at line 974
HasMeaningfulSpeech(transcription, no_speech_prob, segments) ==
    SpeechCheck3(segments,
                 SpeechCheck2(transcription, SpeechCheck1(no_speech_prob)))

-----------------------------------------------------------------------------
(* One flush: _process_buffered_audio and _transcribe_with_whisper.        *)
(* env is what the collaborators do during this flush:                     *)
(*   whisper    AI_INITIALIZED['whisper'] and AI_MODELS['whisper']         *)
(*   tempfile   the temporary .raw file could be written                   *)
(*   opus, pcm  return code 0 of the first and of the fallback ffmpeg run  *)
(*   wav        the .wav file exists and has at least 32000 bytes          *)
(*   raises     the Whisper call raises                                    *)
(*   text, no_speech_prob, segments: the Whisper result                    *)
(*   chromadb   AI_INITIALIZED['chromadb'] and AI_INITIALIZED['embedding'] *)
(*   file_store, chromadb_store: the write of the transcript file and the  *)
(*              add to the collection succeed                              *)

NoTranscription == [none |-> TRUE, text |-> ""]

\* Python truthiness of a transcription: neither None nor ""
Truthy(transcription) == ~transcription.none /\ transcription.text # ""

\* a decode step whose return code is not looked at
FfmpegIgnored(env) == TRUE

\* lines 836-862: Opus decode first, raw PCM as the fallback
FfmpegOk(env) == env.opus \/ env.pcm

\* lines 778-990: the pair's first component, or None
transcribe_with_whisper(env) ==
    IF ~FfmpegOk(env) THEN NoTranscription
    ELSE IF ~env.wav THEN NoTranscription
    ELSE IF env.raises THEN NoTranscription
    ELSE LET transcription == Strip(env.text)
         IN IF HasMeaningfulSpeech(transcription, env.no_speech_prob, env.segments)
            THEN [none |-> FALSE, text |-> transcription]
            ELSE NoTranscription

TimestampStr(timestamp) == IF timestamp = None THEN "None" ELSE ToString(timestamp)

\* line 742
SimulatedTranscription(room_id, timestamp) ==
    "[Simulated transcription for room " \o room_id \o " at "
        \o TimestampStr(timestamp) \o "]"

\* lines 729-744: the text that goes on to the length test
FinalTranscription(whisper_text, room_id, timestamp) ==
    IF Truthy(whisper_text)
    THEN whisper_text.text
    ELSE SimulatedTranscription(room_id, timestamp)

\* lines 746-758: the store calls made for a text
StoreCalls(transcription, room_id, producer_id, timestamp, env) ==
    IF transcription # "" /\ Len(Strip(transcription)) > 10
    THEN {[sink |-> "file", room_id |-> room_id, producer_id |-> producer_id,
           timestamp |-> timestamp, text |-> transcription]}
         \cup (IF env.chromadb
               THEN {[sink |-> "chromadb", room_id |-> room_id,
                      producer_id |-> producer_id, timestamp |-> timestamp,
                      text |-> transcription]}
               ELSE {})
    ELSE {}

\* lines 699-776: what one call leaves behind, as a record of the attempt
process_buffered_audio(buffer_key, room_id, buffer, env) ==
    LET whisper_text == IF env.tempfile /\ env.whisper
                        THEN transcribe_with_whisper(env)
                        ELSE NoTranscription
        transcription == FinalTranscription(whisper_text, room_id, buffer.last_chunk_time)
    IN [buffer_key |-> buffer_key,
        room_id |-> room_id,
        data |-> [i \in DOMAIN buffer.chunks |-> buffer.chunks[i].data],
        total_bytes |-> buffer.total_bytes,
        env |-> env,
        asr_called |-> env.tempfile /\ env.whisper /\ FfmpegOk(env) /\ env.wav,
        whisper_text |-> whisper_text,
        stores |-> IF buffer.chunks = <<>> \/ ~env.tempfile
                   THEN {}
                   ELSE StoreCalls(transcription, room_id, buffer.producer_id,
                                   buffer.last_chunk_time, env)]

\* lines 1073-1092 and 198-263: a store call that fails inside, where the
\* exception is caught
StoreFailed(attempt) ==
    \E call \in attempt.stores :
        \/ call.sink = "file" /\ ~attempt.env.file_store
        \/ call.sink = "chromadb" /\ ~attempt.env.chromadb_store

\* store functions that let their exception out, and no handler around them
StoreFailurePropagates(attempt) == StoreFailed(attempt)

\* lines 768-776: no exception leaves _process_buffered_audio
Propagates(attempt) == FALSE

-----------------------------------------------------------------------------
(* Thread-local state *)

NoItem ==
    [room_id |-> "", producer_id |-> "", timestamp |-> 0,
     audio_bytes |-> [id |-> 0, len |-> 0]]

NoFlush ==
    [path |-> "", resume |-> "", buffer_key |-> "", buffer |-> DefaultBuffer,
     reason |-> "", timestamp |-> 0, producer_id |-> ""]

\* no collaborator has been asked anything
NoEnv ==
    [whisper |-> FALSE, tempfile |-> FALSE, opus |-> FALSE, pcm |-> FALSE,
     wav |-> FALSE, raises |-> FALSE, text |-> "", no_speech_prob |-> 0,
     segments |-> <<>>, chromadb |-> FALSE, file_store |-> FALSE,
     chromadb_store |-> FALSE]

\* where a room thread stands inside _process_buffered_audio: not in it
IdleBufferedAudio == [pc |-> "idle", env |-> NoEnv, encoded |-> 0]

\* the threads that serve the requests of /query
Queries == {"q"}

\* a caller of add_audio_chunk
IdleCaller == [pc |-> "idle", audio_data |-> NoItem, room_queue |-> 0]

\* a room thread (_process_room_queue, then _cleanup_room) and its locals
UnbornThread ==
    [pc |-> "unborn", room_id |-> "", room_queue |-> 0,
     consecutive_empty_polls |-> 0, remaining_items |-> <<>>,
     buffers_to_process |-> {}, flushing |-> NoFlush]

\* shutdown() has not been called
\* (joined: how many entries of thread_items the loop has gone through)
NoShutdownCall ==
    [pc |-> "idle", calls |-> 0, thread_items |-> <<>>, joined |-> 0, warned |-> {}]

\* a thread that has not returned from _process_room_queue
IsAlive(w) == threads[w].pc \notin {"unborn", "done"}

Init ==
    /\ room_queues = EmptyDict
    /\ room_threads = EmptyDict
    /\ active_rooms = {}
    /\ room_locks = {}
    /\ shutdown_event = FALSE
    /\ shutdown_call = NoShutdownCall
    /\ room_audio_buffers = EmptyDict
    /\ queues = EmptyDict
    /\ threads = [w \in Workers |-> UnbornThread]
    /\ callers = [d \in Dispatchers |-> IdleCaller]
    /\ chunk_seq = 0
    /\ add_result = [c \in ChunkIds |-> "none"]
    /\ put_queue = [c \in ChunkIds |-> 0]
    /\ put_order = <<>>
    /\ race = {}
    /\ consumed = [c \in ChunkIds |-> 0]
    /\ flush_log = {}
    /\ buffered_audio = [w \in Workers |-> IdleBufferedAudio]
    /\ query_calls = [q \in Queries |-> "idle"]

-----------------------------------------------------------------------------
(* add_audio_chunk and get_or_create_room_queue, lines 513-561 *)

\* add_audio_chunk returns: the caller is idle again, the result is recorded
Returns(d, result) ==
    /\ callers' = [callers EXCEPT ![d] = IdleCaller]
    /\ add_result' = [add_result EXCEPT ![callers[d].audio_data.audio_bytes.id] = result]

\* The calls that are between the first check and the lock for this room,
\* having found no queue for it
Racing(room_id) ==
    {callers[e].audio_data.audio_bytes.id :
        e \in {x \in Dispatchers : /\ callers[x].pc = "acquire"
                                   /\ callers[x].audio_data.room_id = room_id}}

\* lines 537-545 and 515: a new call, up to the unlocked first check.  The
\* chunk gets its identity here.  Callers are interchangeable, so a call is
\* taken by the first idle one.
Call(d, item) ==
    /\ callers[d].pc = "idle"
    /\ \A e \in Dispatchers : e < d => callers[e].pc # "idle"
    /\ chunk_seq < MaxChunks
    /\ chunk_seq' = chunk_seq + 1
    /\ LET audio_data == [item EXCEPT !.audio_bytes.id = chunk_seq + 1]
       IN IF item.room_id = ""
          THEN /\ add_result' = [add_result EXCEPT ![chunk_seq + 1] = "False"]
               /\ UNCHANGED <<callers, race>>
          ELSE /\ add_result' = [add_result EXCEPT ![chunk_seq + 1] = "pending"]
               /\ race' = IF item.room_id \in DOMAIN room_queues
                          THEN race
                          ELSE race \cup {[chunks |-> {c, chunk_seq + 1},
                                           room_id |-> item.room_id,
                                           born |-> DOMAIN queues] :
                                              c \in Racing(item.room_id)}
               /\ callers' = [callers EXCEPT ![d] =
                                 [pc |-> IF item.room_id \in DOMAIN room_queues
                                         THEN "lookup" ELSE "acquire",
                                  audio_data |-> audio_data,
                                  room_queue |-> 0]]
    /\ UNCHANGED <<room_queues, room_threads, active_rooms, room_locks,
                   shutdown_event, shutdown_call, room_audio_buffers, queues, threads,
                   put_queue, put_order, consumed, flush_log,
                   buffered_audio, query_calls>>

\* get_or_create_room_queue without the re-check under the lock
SecondCheckMissing(room_id) == TRUE

\* line 518: the second check, made with the room lock held
SecondCheck(room_id) == room_id \notin DOMAIN room_queues

\* lines 516-520: take the room lock, check again, create the queue
LockedCreate(d) ==
    LET room_id == callers[d].audio_data.room_id
        q == Cardinality(DOMAIN queues) + 1
    IN /\ callers[d].pc = "acquire"
       /\ room_id \notin room_locks
       /\ IF SecondCheck(room_id)
          THEN /\ q \in Workers
               /\ room_locks' = room_locks \cup {room_id}
               /\ room_queues' = DictSet(room_queues, room_id, q)
               /\ queues' = DictSet(queues, q, <<>>)
               /\ callers' = [callers EXCEPT ![d].pc = "thread"]
          ELSE /\ callers' = [callers EXCEPT ![d].pc = "lookup"]
               /\ UNCHANGED <<room_locks, room_queues, queues>>
       /\ UNCHANGED <<room_threads, active_rooms, shutdown_event, shutdown_call,
                      room_audio_buffers, threads, chunk_seq, add_result, put_queue, put_order, race,
                      consumed, flush_log,
                      buffered_audio, query_calls>>

\* lines 523-533: create and start the thread, leave the with block.  The
\* thread's first statement (line 567) reads the queue that was stored under
\* the lock the creator still holds, so it is taken here.
StartThread(d) ==
    LET room_id == callers[d].audio_data.room_id
        w == room_queues[room_id]
    IN /\ callers[d].pc = "thread"
       /\ room_threads' = DictSet(room_threads, room_id, w)
       /\ active_rooms' = active_rooms \cup {room_id}
       /\ threads' = [threads EXCEPT ![w] =
                         [UnbornThread EXCEPT !.pc = "poll", !.room_id = room_id,
                                              !.room_queue = room_queues[room_id]]]
       /\ room_locks' = room_locks \ {room_id}
       /\ callers' = [callers EXCEPT ![d].pc = "lookup"]
       /\ UNCHANGED <<room_queues, shutdown_event, shutdown_call, room_audio_buffers, queues,
                      chunk_seq, add_result, put_queue, put_order, race, consumed, flush_log,
                      buffered_audio, query_calls>>

\* line 535: return self.room_queues[room_id]; a KeyError ends the call at 559
Lookup(d) ==
    LET room_id == callers[d].audio_data.room_id
    IN /\ callers[d].pc = "lookup"
       /\ IF room_id \in DOMAIN room_queues
          THEN /\ callers' = [callers EXCEPT ![d].pc = "put",
                                             ![d].room_queue = room_queues[room_id]]
               /\ UNCHANGED add_result
          ELSE Returns(d, "False")
       /\ UNCHANGED <<room_queues, room_threads, active_rooms, room_locks,
                      shutdown_event, shutdown_call, room_audio_buffers, queues, threads,
                      chunk_seq, put_queue, put_order, race, consumed, flush_log,
                      buffered_audio, query_calls>>

\* a queue without a size limit
QueueNeverFull(items) == FALSE

\* queue.Queue(maxsize=50): put has no free slot
QueueFull(items) == Len(items) >= QueueMaxSize

\* lines 548-558: put with a timeout; queue.Full after it makes the call return False
Put(d) ==
    LET q == callers[d].room_queue
    IN /\ callers[d].pc = "put"
       /\ IF ~QueueFull(queues[q])
          THEN /\ queues' = [queues EXCEPT ![q] = Append(@, callers[d].audio_data)]
               /\ put_queue' = [put_queue EXCEPT
                                   ![callers[d].audio_data.audio_bytes.id] = q]
               /\ put_order' = Append(put_order, callers[d].audio_data.audio_bytes.id)
               /\ Returns(d, "True")
          ELSE /\ Returns(d, "False")
               /\ UNCHANGED <<queues, put_queue, put_order>>
       /\ UNCHANGED <<room_queues, room_threads, active_rooms, room_locks,
                      shutdown_event, shutdown_call, room_audio_buffers, threads, chunk_seq,
                      race, consumed, flush_log,
                      buffered_audio, query_calls>>

-----------------------------------------------------------------------------
(* _process_audio_for_transcription, lines 599-697, up to the point where  *)
(* _process_buffered_audio has read the buffer (line 710) and blocks in     *)
(* decode and ASR.  The result names the new buffers and, when the policy   *)
(* asks for a flush, the flush that is now in flight.                       *)

\* the same without the size check of lines 610-612
process_audio_without_size_check(buffers, audio_item, room_id, resume) ==
    LET buffer_key == BufferKey(room_id, audio_item.producer_id)
        buffer == AppendChunk(GetBuffer(buffers, buffer_key), audio_item)
        appended == DictSet(buffers, buffer_key, buffer)
    IN IF audio_item.timestamp = None
       THEN \* line 636 raises TypeError, caught at line 694
            [buffers |-> appended, flushing |-> NoFlush]
       ELSE LET time_since_first == audio_item.timestamp - buffer.first_chunk_time
                reason == FlushDecision(time_since_first, buffer.total_bytes,
                                        Len(buffer.chunks))
            IN [buffers |-> appended,
                flushing |->
                   IF ShouldProcess(reason)
                   THEN [path |-> "policy", resume |-> resume,
                         buffer_key |-> buffer_key, buffer |-> buffer,
                         reason |-> reason,
                         timestamp |-> audio_item.timestamp,
                         producer_id |-> audio_item.producer_id]
                   ELSE NoFlush]

\* lines 601-672: the size check, the append and the policy
process_audio_for_transcription(buffers, audio_item, room_id, resume) ==
    IF audio_item.audio_bytes.len > MAX_AUDIO_FILE_SIZE
    THEN [buffers |-> buffers, flushing |-> NoFlush]
    ELSE LET buffer_key == BufferKey(room_id, audio_item.producer_id)
             buffer == AppendChunk(GetBuffer(buffers, buffer_key), audio_item)
             appended == DictSet(buffers, buffer_key, buffer)
         IN IF audio_item.timestamp = None
            THEN \* line 636 raises TypeError, caught at line 694
                 [buffers |-> appended, flushing |-> NoFlush]
            ELSE LET time_since_first == audio_item.timestamp - buffer.first_chunk_time
                     reason == FlushDecision(time_since_first, buffer.total_bytes,
                                             Len(buffer.chunks))
                 IN [buffers |-> appended,
                     flushing |->
                        IF ShouldProcess(reason)
                        THEN [path |-> "policy", resume |-> resume,
                              buffer_key |-> buffer_key, buffer |-> buffer,
                              reason |-> reason,
                              timestamp |-> audio_item.timestamp,
                              producer_id |-> audio_item.producer_id]
                        ELSE NoFlush]

\* the counter after a dequeued chunk (line 576)
PollsAfterGet(consecutive_empty_polls) == 0

\* the loop's exit test on the counter (line 588)
IdleTimeout(consecutive_empty_polls) == consecutive_empty_polls >= max_empty_polls

-----------------------------------------------------------------------------
(* _process_room_queue, lines 563-597 *)

\* lines 571-582: a chunk is dequeued and processed, up to a flush's blocking call
PollGet(w) ==
    LET q == threads[w].room_queue
        audio_item == Head(queues[q])
        done == process_audio_for_transcription(room_audio_buffers, audio_item,
                                                threads[w].room_id, "poll")
    IN /\ threads[w].pc = "poll"
       /\ ~shutdown_event
       /\ queues[q] # <<>>
       /\ queues' = [queues EXCEPT ![q] = Tail(@)]
       /\ consumed' = [consumed EXCEPT ![audio_item.audio_bytes.id] = @ + 1]
       /\ room_audio_buffers' = done.buffers
       /\ threads' = [threads EXCEPT
                         ![w].consecutive_empty_polls = PollsAfterGet(@),
                         ![w].flushing = done.flushing,
                         ![w].pc = IF done.flushing = NoFlush
                                   THEN "poll" ELSE "transcribing"]
       /\ UNCHANGED <<room_queues, room_threads, active_rooms, room_locks,
                      shutdown_event, shutdown_call, callers, chunk_seq, add_result, put_queue, put_order, race, flush_log,
                      buffered_audio, query_calls>>

\* lines 584-590: PollStride empty polls in a row; the loop is left at the limit
PollEmpty(w) ==
    LET q == threads[w].room_queue
        polls == threads[w].consecutive_empty_polls + PollStride
    IN /\ threads[w].pc = "poll"
       /\ ~shutdown_event
       /\ queues[q] = <<>>
       /\ threads' = [threads EXCEPT
                         ![w].consecutive_empty_polls = polls,
                         ![w].pc = IF IdleTimeout(polls) THEN "cleanup" ELSE "poll"]
       /\ UNCHANGED <<room_queues, room_threads, active_rooms, room_locks,
                      shutdown_event, shutdown_call, room_audio_buffers, queues, callers,
                      chunk_seq, add_result, put_queue, put_order, race, consumed, flush_log,
                      buffered_audio, query_calls>>

\* line 571: the loop sees the shutdown event
SeeShutdown(w) ==
    /\ threads[w].pc = "poll"
    /\ shutdown_event
    /\ threads' = [threads EXCEPT ![w].pc = "cleanup"]
    /\ UNCHANGED <<room_queues, room_threads, active_rooms, room_locks,
                   shutdown_event, shutdown_call, room_audio_buffers, queues, callers,
                   chunk_seq, add_result, put_queue, put_order, race, consumed, flush_log,
                   buffered_audio, query_calls>>

\* a flush's log entry
FlushRecord(w, env) ==
    LET f == threads[w].flushing
    IN [worker |-> w, path |-> f.path, reason |-> f.reason,
        attempt |-> process_buffered_audio(f.buffer_key, threads[w].room_id,
                                           f.buffer, env)]

\* a flush whose reset empties every buffer of the room
PolicyFlushEndResetsRoom(w, env) ==
    LET f == threads[w].flushing
    IN /\ threads[w].pc = "transcribing"
       /\ f.path = "policy"
       /\ flush_log' = flush_log \cup {FlushRecord(w, env)}
       /\ room_audio_buffers' =
              [k \in DOMAIN room_audio_buffers |->
                  ClearedBuffer(f.timestamp, room_audio_buffers[k].producer_id)]
       /\ threads' = [threads EXCEPT ![w].pc = f.resume, ![w].flushing = NoFlush]
       /\ buffered_audio' = [buffered_audio EXCEPT ![w] = IdleBufferedAudio]
       /\ UNCHANGED <<room_queues, room_threads, active_rooms, room_locks,
                      shutdown_event, shutdown_call, queues, callers, chunk_seq,
                      add_result, put_queue, put_order, race, consumed,
                      query_calls>>

\* lines 676-686: the flush returns, whatever became of it; the buffer is
\* replaced.  An exception out of line 676 would go to line 694 past the reset.
PolicyFlushEnd(w, env) ==
    LET f == threads[w].flushing
    IN /\ threads[w].pc = "transcribing"
       /\ f.path = "policy"
       /\ flush_log' = flush_log \cup {FlushRecord(w, env)}
       /\ room_audio_buffers' =
              IF Propagates(FlushRecord(w, env).attempt)
              THEN room_audio_buffers
              ELSE DictSet(room_audio_buffers, f.buffer_key,
                           ClearedBuffer(f.timestamp, f.producer_id))
       /\ threads' = [threads EXCEPT ![w].pc = f.resume, ![w].flushing = NoFlush]
       /\ buffered_audio' = [buffered_audio EXCEPT ![w] = IdleBufferedAudio]
       /\ UNCHANGED <<room_queues, room_threads, active_rooms, room_locks,
                      shutdown_event, shutdown_call, queues, callers, chunk_seq, add_result, put_queue, put_order, race,
                      consumed,
                      query_calls>>

-----------------------------------------------------------------------------
(* _cleanup_room, lines 992-1036 *)

\* line 1016: the buffers _cleanup_room takes for the room's
KeyOfRoom(buffer_key, room_id) == StartsWith(buffer_key, room_id \o "_")

\* line 1018
NeedsFinalFlush(buffer) ==
    buffer.chunks # <<>> /\ buffer.total_bytes > FinalFlushThreshold

\* lines 995-1006: take the room lock and drain the queue
CleanupEnter(w) ==
    LET room_id == threads[w].room_id
    IN /\ threads[w].pc = "cleanup"
       /\ room_id \notin room_locks
       /\ IF room_id \in DOMAIN room_queues
          THEN LET q == room_queues[room_id]
               IN /\ room_locks' = room_locks \cup {room_id}
                  /\ threads' = [threads EXCEPT ![w].pc = "drain",
                                                ![w].remaining_items = queues[q]]
                  /\ queues' = [queues EXCEPT ![q] = <<>>]
          ELSE /\ threads' = [threads EXCEPT ![w].pc = "done"]
               /\ UNCHANGED <<room_locks, queues>>
       /\ UNCHANGED <<room_queues, room_threads, active_rooms, shutdown_event, shutdown_call,
                      room_audio_buffers, callers, chunk_seq, add_result, put_queue, put_order, race,
                      consumed, flush_log,
                      buffered_audio, query_calls>>

\* a cleanup that takes the drained items off the list without processing them
DrainItemDiscards(w) ==
    /\ threads[w].pc = "drain"
    /\ threads[w].remaining_items # <<>>
    /\ threads' = [threads EXCEPT ![w].remaining_items = Tail(@)]
    /\ UNCHANGED <<room_queues, room_threads, active_rooms, room_locks,
                   shutdown_event, shutdown_call, room_audio_buffers, queues,
                   callers, chunk_seq, add_result, put_queue, put_order, race,
                   consumed, flush_log,
                   buffered_audio, query_calls>>

\* lines 1008-1011: the drained items are processed in order
DrainItem(w) ==
    LET audio_item == Head(threads[w].remaining_items)
        done == process_audio_for_transcription(room_audio_buffers, audio_item,
                                                threads[w].room_id, "drain")
    IN /\ threads[w].pc = "drain"
       /\ threads[w].remaining_items # <<>>
       /\ consumed' = [consumed EXCEPT ![audio_item.audio_bytes.id] = @ + 1]
       /\ room_audio_buffers' = done.buffers
       /\ threads' = [threads EXCEPT
                         ![w].remaining_items = Tail(@),
                         ![w].flushing = done.flushing,
                         ![w].pc = IF done.flushing = NoFlush
                                   THEN "drain" ELSE "transcribing"]
       /\ UNCHANGED <<room_queues, room_threads, active_rooms, room_locks,
                      shutdown_event, shutdown_call, queues, callers, chunk_seq, add_result, put_queue, put_order, race,
                      flush_log,
                      buffered_audio, query_calls>>

\* lines 1014-1019: the buffers to flush before the room goes
Collect(w) ==
    LET room_id == threads[w].room_id
    IN /\ threads[w].pc = "drain"
       /\ threads[w].remaining_items = <<>>
       /\ threads' = [threads EXCEPT
                         ![w].pc = "final",
                         ![w].buffers_to_process =
                            {[buffer_key |-> k, buffer |-> room_audio_buffers[k]] :
                                k \in {x \in DOMAIN room_audio_buffers :
                                          /\ KeyOfRoom(x, room_id)
                                          /\ NeedsFinalFlush(room_audio_buffers[x])}}]
       /\ UNCHANGED <<room_queues, room_threads, active_rooms, room_locks,
                      shutdown_event, shutdown_call, room_audio_buffers, queues, callers,
                      chunk_seq, add_result, put_queue, put_order, race, consumed, flush_log,
                      buffered_audio, query_calls>>

\* The dict object a collected reference points to: the one now under the key
\* when that one extends what was collected (chunks are only ever appended to
\* an object; a reset or a deletion puts another object under the key).
Referenced(entry) ==
    IF /\ entry.buffer_key \in DOMAIN room_audio_buffers
       /\ IsPrefix(entry.buffer.chunks, room_audio_buffers[entry.buffer_key].chunks)
    THEN room_audio_buffers[entry.buffer_key]
    ELSE entry.buffer

\* lines 1021-1023: the next collected buffer goes to _process_buffered_audio
FinalFlushBegin(w) ==
    /\ threads[w].pc = "final"
    /\ \E entry \in threads[w].buffers_to_process :
          threads' = [threads EXCEPT
                         ![w].pc = "transcribing",
                         ![w].buffers_to_process = @ \ {entry},
                         ![w].flushing =
                            [path |-> "final", resume |-> "final",
                             buffer_key |-> entry.buffer_key,
                             buffer |-> Referenced(entry),
                             reason |-> "", timestamp |-> 0, producer_id |-> ""]]
    /\ UNCHANGED <<room_queues, room_threads, active_rooms, room_locks,
                   shutdown_event, shutdown_call, room_audio_buffers, queues, callers,
                   chunk_seq, add_result, put_queue, put_order, race, consumed, flush_log,
                   buffered_audio, query_calls>>

\* lines 1023-1024: the final flush returns and the buffer is deleted; a key
\* that is gone raises KeyError, caught at line 1035 outside the with block
FinalFlushEnd(w, env) ==
    LET f == threads[w].flushing
    IN /\ threads[w].pc = "transcribing"
       /\ f.path = "final"
       /\ flush_log' = flush_log \cup {FlushRecord(w, env)}
       /\ IF f.buffer_key \in DOMAIN room_audio_buffers
          THEN /\ room_audio_buffers' = DictDel(room_audio_buffers, f.buffer_key)
               /\ threads' = [threads EXCEPT ![w].pc = "final",
                                             ![w].flushing = NoFlush]
               /\ UNCHANGED room_locks
          ELSE /\ threads' = [threads EXCEPT ![w].pc = "done",
                                             ![w].flushing = NoFlush,
                                             ![w].buffers_to_process = {}]
               /\ room_locks' = room_locks \ {threads[w].room_id}
               /\ UNCHANGED room_audio_buffers
       /\ buffered_audio' = [buffered_audio EXCEPT ![w] = IdleBufferedAudio]
       /\ UNCHANGED <<room_queues, room_threads, active_rooms, shutdown_event, shutdown_call,
                      queues, callers, chunk_seq, add_result, put_queue, put_order, race, consumed,
                      query_calls>>

\* lines 1026-1033: the room leaves the registry, the lock is released
RemoveRoom(w) ==
    LET room_id == threads[w].room_id
    IN /\ threads[w].pc = "final"
       /\ threads[w].buffers_to_process = {}
       /\ room_queues' = DictDel(room_queues, room_id)
       /\ room_threads' = DictDel(room_threads, room_id)
       /\ active_rooms' = active_rooms \ {room_id}
       /\ room_locks' = room_locks \ {room_id}
       /\ threads' = [threads EXCEPT ![w].pc = "done"]
       /\ UNCHANGED <<shutdown_event, shutdown_call, room_audio_buffers, queues, callers,
                      chunk_seq, add_result, put_queue, put_order, race, consumed, flush_log,
                      buffered_audio, query_calls>>

-----------------------------------------------------------------------------
(* shutdown, lines 1051-1063 *)

\* a shutdown() that flips the event instead of setting it
ShutdownFlips ==
    /\ shutdown_call.pc \in {"idle", "returned"}
    /\ shutdown_call.calls < MaxShutdowns
    /\ shutdown_event' = ~shutdown_event
    /\ shutdown_call' = [shutdown_call EXCEPT !.pc = "set", !.calls = @ + 1,
                                              !.thread_items = <<>>, !.joined = 0]
    /\ UNCHANGED <<room_queues, room_threads, active_rooms, room_locks,
                   room_audio_buffers, queues, threads, callers, chunk_seq,
                   add_result, put_queue, put_order, race, consumed, flush_log,
                   buffered_audio, query_calls>>

\* line 1054: the event is set
Shutdown ==
    /\ shutdown_call.pc \in {"idle", "returned"}
    /\ shutdown_call.calls < MaxShutdowns
    /\ shutdown_event' = TRUE
    /\ shutdown_call' = [shutdown_call EXCEPT !.pc = "set", !.calls = @ + 1,
                                              !.thread_items = <<>>, !.joined = 0]
    /\ UNCHANGED <<room_queues, room_threads, active_rooms, room_locks,
                   room_audio_buffers, queues, threads, callers, chunk_seq,
                   add_result, put_queue, put_order, race, consumed, flush_log,
                   buffered_audio, query_calls>>

\* the elements of a set of threads as a list, in the order of their creation
RECURSIVE ThreadList(_)
ThreadList(S) ==
    IF S = {} THEN <<>>
    ELSE LET w == CHOOSE x \in S : \A y \in S : x <= y
         IN <<w>> \o ThreadList(S \ {w})

\* line 1057: the copy of room_threads that the joins go through
SnapshotThreads ==
    /\ shutdown_call.pc = "set"
    /\ shutdown_call' = [shutdown_call EXCEPT
                            !.pc = "join",
                            !.thread_items =
                               ThreadList({room_threads[r] : r \in DOMAIN room_threads})]
    /\ UNCHANGED <<room_queues, room_threads, active_rooms, room_locks,
                   shutdown_event, room_audio_buffers, queues, threads, callers,
                   chunk_seq, add_result, put_queue, put_order, race, consumed,
                   flush_log,
                   buffered_audio, query_calls>>

\* a join that waits for the thread however long it takes
JoinWithoutTimeout(w) == ~IsAlive(w)

\* thread.join(timeout=5.0) returns: the thread has ended or 5 s have passed
JoinReturns(w) == TRUE

\* lines 1058-1063: the next thread is joined if it is alive; one that is
\* still alive after the join gets the warning
JoinThread ==
    /\ shutdown_call.pc = "join"
    /\ shutdown_call.joined < Len(shutdown_call.thread_items)
    /\ LET w == shutdown_call.thread_items[shutdown_call.joined + 1]
       IN /\ JoinReturns(w)
          /\ shutdown_call' = [shutdown_call EXCEPT
                                  !.joined = @ + 1,
                                  !.warned = IF IsAlive(w) THEN @ \cup {w} ELSE @]
    /\ UNCHANGED <<room_queues, room_threads, active_rooms, room_locks,
                   shutdown_event, room_audio_buffers, queues, threads, callers,
                   chunk_seq, add_result, put_queue, put_order, race, consumed,
                   flush_log,
                   buffered_audio, query_calls>>

\* shutdown() returns after the last join
ShutdownReturn ==
    /\ shutdown_call.pc = "join"
    /\ shutdown_call.joined = Len(shutdown_call.thread_items)
    /\ shutdown_call' = [shutdown_call EXCEPT !.pc = "returned"]
    /\ UNCHANGED <<room_queues, room_threads, active_rooms, room_locks,
                   shutdown_event, room_audio_buffers, queues, threads, callers,
                   chunk_seq, add_result, put_queue, put_order, race, consumed,
                   flush_log,
                   buffered_audio, query_calls>>

-----------------------------------------------------------------------------
(* The next-state relation, for the chunks that may arrive and for what the *)
(* collaborators may do during a flush                                      *)

Engine(items, envs) ==
    \/ \E d \in Dispatchers, item \in items : Call(d, item)
    \/ \E d \in Dispatchers : LockedCreate(d)
    \/ \E d \in Dispatchers : StartThread(d)
    \/ \E d \in Dispatchers : Lookup(d)
    \/ \E d \in Dispatchers : Put(d)
    \/ \E w \in Workers : PollGet(w)
    \/ \E w \in Workers : PollEmpty(w)
    \/ \E w \in Workers : SeeShutdown(w)
    \/ \E w \in Workers, env \in envs : PolicyFlushEnd(w, env)
    \/ \E w \in Workers : CleanupEnter(w)
    \/ \E w \in Workers : DrainItem(w)
    \/ \E w \in Workers : Collect(w)
    \/ \E w \in Workers : FinalFlushBegin(w)
    \/ \E w \in Workers, env \in envs : FinalFlushEnd(w, env)
    \/ \E w \in Workers : RemoveRoom(w)
    \/ Shutdown

Env(whisper, tempfile, opus, pcm, text, no_speech_prob, segments) ==
    [whisper |-> whisper, tempfile |-> tempfile, opus |-> opus, pcm |-> pcm,
     wav |-> TRUE, raises |-> FALSE, text |-> text,
     no_speech_prob |-> no_speech_prob, segments |-> segments, chromadb |-> TRUE,
     file_store |-> TRUE, chromadb_store |-> TRUE]

-----------------------------------------------------------------------------
(* Spec: the engine with two rooms, the id of one followed by "_" being a   *)
(* prefix of the other's buffer keys, and one producer.                     *)

Rooms == {"a", "a_b"}

Producers == {"c"}

AudioItems ==
    {[room_id |-> r, producer_id |-> p, timestamp |-> t,
      audio_bytes |-> [id |-> 0, len |-> n]] :
        r \in Rooms, p \in Producers, t \in {1000, 50000}, n \in {3000, 20000}}

\* speech that is stored; both ffmpeg runs fail; Whisper finds no speech
Envs ==
    {Env(TRUE, TRUE, TRUE, FALSE, "hello there everyone", 10, <<10>>),
     Env(TRUE, TRUE, FALSE, FALSE, "", 100, <<>>),
     Env(TRUE, TRUE, FALSE, TRUE, "", 90, <<>>)}

Next == Engine(AudioItems, Envs)

Spec == Init /\ [][Next]_vars

-----------------------------------------------------------------------------
(* SpecRoom: the engine with the chunks of one room, whose queue and thread *)
(* are created, retired and created again.                                  *)

RoomItems ==
    {item \in AudioItems : item.room_id = "a" /\ item.audio_bytes.len = 3000}

\* stored speech; both ffmpeg runs fail
RoomEnvs ==
    {Env(TRUE, TRUE, TRUE, FALSE, "hello there everyone", 10, <<10>>),
     Env(TRUE, TRUE, FALSE, FALSE, "", 100, <<>>)}

NextRoom == Engine(RoomItems, RoomEnvs)

SpecRoom == Init /\ [][NextRoom]_vars

-----------------------------------------------------------------------------
(* SpecPolicy: one room thread with one chunk in its queue and a buffer     *)
(* that earlier chunks have filled, over the boundary values of the flush   *)
(* policy.  The chunk is dequeued by the loop or drained by _cleanup_room.  *)

\* a buffer of n chunks and total bytes, all stamped 0
FilledBuffer(n, total) ==
    [chunks |-> [i \in 1..n |->
                    [data |-> 0, timestamp |-> 0,
                     size |-> IF i = 1 THEN total - (n - 1) * (total \div n)
                              ELSE total \div n]],
     total_bytes |-> total, last_chunk_time |-> 0,
     first_chunk_time |-> IF n = 0 THEN None ELSE 0, producer_id |-> "c"]

PolicyBuffers ==
    {FilledBuffer(0, 0)}
    \cup {FilledBuffer(1, total) : total \in {50000, 99999, 199999, 299999, 499000}}
    \cup {FilledBuffer(MIN_CHUNK_COUNT - 1, total) : total \in {50000, 299999}}

PolicyItems ==
    {[room_id |-> "a", producer_id |-> "c", timestamp |-> t,
      audio_bytes |-> [id |-> 1, len |-> n]] :
        t \in {0, 9999, 10000, 29999, 30000, 44999, 45000},
        n \in {1, 1000, 600000, 1100000}}

\* stored speech; a repetitive text; both ffmpeg runs fail; no Whisper model;
\* the temporary file cannot be written
PolicyEnvs ==
    {Env(TRUE, TRUE, TRUE, FALSE, "hello there everyone", 10, <<10>>),
     Env(TRUE, TRUE, TRUE, FALSE, "la la la la la la la", 90, <<>>),
     Env(TRUE, TRUE, FALSE, FALSE, "", 100, <<>>),
     Env(FALSE, TRUE, TRUE, FALSE, "", 100, <<>>),
     Env(TRUE, FALSE, TRUE, FALSE, "", 100, <<>>)}

\* The state in which room "a" has its thread polling, audio_item is the one
\* chunk in its queue and buffer is what the thread has accumulated.  A buffer
\* the policy would have flushed is not one the thread can be left with.
WorkerInit(audio_item, buffer) ==
    /\ FlushDecision(buffer.last_chunk_time - buffer.first_chunk_time,
                     buffer.total_bytes, Len(buffer.chunks)) = ""
    /\ room_queues = [r \in {"a"} |-> 1]
    /\ room_threads = [r \in {"a"} |-> 1]
    /\ active_rooms = {"a"}
    /\ room_locks = {}
    /\ shutdown_event = FALSE
    /\ shutdown_call = NoShutdownCall
    /\ room_audio_buffers = IF buffer.chunks = <<>> THEN EmptyDict
                            ELSE [k \in {BufferKey("a", "c")} |-> buffer]
    /\ queues = [q \in {1} |-> <<audio_item>>]
    /\ threads = [w \in Workers |->
                     IF w = 1
                     THEN [UnbornThread EXCEPT !.pc = "poll", !.room_id = "a",
                                               !.room_queue = 1]
                     ELSE UnbornThread]
    /\ callers = [d \in Dispatchers |-> IdleCaller]
    /\ chunk_seq = MaxChunks
    /\ add_result = [c \in ChunkIds |-> IF c = 1 THEN "True" ELSE "none"]
    /\ put_queue = [c \in ChunkIds |-> IF c = 1 THEN 1 ELSE 0]
    /\ put_order = <<1>>
    /\ race = {}
    /\ consumed = [c \in ChunkIds |-> 0]
    /\ flush_log = {}
    /\ buffered_audio = [w \in Workers |-> IdleBufferedAudio]
    /\ query_calls = [q \in Queries |-> "idle"]

InitPolicy ==
    \E audio_item \in PolicyItems, buffer \in PolicyBuffers :
        WorkerInit(audio_item, buffer)

NextPolicy ==
    \/ \E w \in Workers : PollGet(w)
    \/ \E w \in Workers : SeeShutdown(w)
    \/ \E w \in Workers, env \in PolicyEnvs : PolicyFlushEnd(w, env)
    \/ \E w \in Workers : CleanupEnter(w)
    \/ \E w \in Workers : DrainItem(w)
    \/ \E w \in Workers : Collect(w)
    \/ \E w \in Workers : FinalFlushBegin(w)
    \/ \E w \in Workers, env \in PolicyEnvs : FinalFlushEnd(w, env)
    \/ \E w \in Workers : RemoveRoom(w)
    \/ Shutdown

SpecPolicy == InitPolicy /\ [][NextPolicy]_vars

-----------------------------------------------------------------------------
(* SpecFlush: one flush of one 600000-byte chunk, over what Whisper may     *)
(* return and over the ways decode and transcription may fail.             *)

FlushItem ==
    [room_id |-> "a", producer_id |-> "c", timestamp |-> 1000,
     audio_bytes |-> [id |-> 1, len |-> 600000]]

Texts ==
    {"", "ok", " hi there ", "good night", "hello there everyone welcome", "a b c d e f",
     "la la la la la la la", "la la la la ok ok", "la la la ok ok go",
     "teacher said teacher said go on", "Teacher asks one two three four",
     "thanks for watching"}

\* in hundredths
NoSpeechProbs == {0, 69, 70, 100}

SegmentLists == {<<>>, <<79>>, <<80>>, <<90, 50>>}

\* whisper, tempfile, opus, pcm, wav, raises
Outcomes ==
    {<<TRUE, TRUE, TRUE, FALSE, TRUE, FALSE>>,
     <<TRUE, TRUE, FALSE, TRUE, TRUE, FALSE>>,
     <<TRUE, TRUE, FALSE, FALSE, TRUE, FALSE>>,
     <<TRUE, TRUE, TRUE, FALSE, FALSE, FALSE>>,
     <<TRUE, TRUE, TRUE, FALSE, TRUE, TRUE>>,
     <<FALSE, TRUE, TRUE, FALSE, TRUE, FALSE>>,
     <<TRUE, FALSE, TRUE, FALSE, TRUE, FALSE>>}

FlushEnvs ==
    {[whisper |-> o[1], tempfile |-> o[2], opus |-> o[3], pcm |-> o[4],
      wav |-> o[5], raises |-> o[6], text |-> t, no_speech_prob |-> n,
      segments |-> g, chromadb |-> c, file_store |-> TRUE,
      chromadb_store |-> TRUE] :
        o \in Outcomes, t \in Texts, n \in NoSpeechProbs, g \in SegmentLists,
        c \in BOOLEAN}

InitFlush == WorkerInit(FlushItem, FilledBuffer(0, 0))

NextFlush ==
    \/ \E w \in Workers : PollGet(w)
    \/ \E w \in Workers, env \in FlushEnvs : PolicyFlushEnd(w, env)

SpecFlush == InitFlush /\ [][NextFlush]_vars

-----------------------------------------------------------------------------
(* Properties of the registry and of dispatch *)

\* the threads created for a room
WorkersOf(room_id) ==
    {w \in Workers : threads[w].pc # "unborn" /\ threads[w].room_id = room_id}

\* C1: in every reachable state each room has at most one live worker: at
\* most one of its threads has not finished _cleanup_room, and the queue that
\* thread reads is the one queue registered for the room.
C1_AtMostOneLiveWorker ==
    \A w1 \in Workers :
        IsAlive(w1) =>
            /\ \A w2 \in Workers :
                  (IsAlive(w2) /\ threads[w2].room_id = threads[w1].room_id)
                      => w2 = w1
            /\ threads[w1].room_id \in DOMAIN room_queues
            /\ room_queues[threads[w1].room_id] = threads[w1].room_queue

\* a room whose first worker has retired and whose second worker is live
C1_Witness ==
    \E w1, w2 \in Workers :
        /\ w1 # w2
        /\ threads[w1].room_id = threads[w2].room_id
        /\ threads[w1].pc = "done"
        /\ IsAlive(w2)

\* the chunk is in sequence items
InItems(c, items) == \E i \in DOMAIN items : items[i].audio_bytes.id = c

\* the chunk is where a room thread will still take it from: in the queue of
\* a thread that is about to be started, is in its loop or has yet to drain,
\* or among the items a thread has drained
WillBeConsumed(c) ==
    \/ \E d \in Dispatchers :
          /\ callers[d].pc = "thread"
          /\ InItems(c, queues[room_queues[callers[d].audio_data.room_id]])
    \/ \E w \in Workers :
          \/ InItems(c, threads[w].remaining_items)
          \/ /\ IsAlive(w)
             /\ InItems(c, queues[threads[w].room_queue])
             /\ \/ threads[w].pc \in {"poll", "cleanup"}
                \/ /\ threads[w].pc = "transcribing"
                   /\ threads[w].flushing.resume = "poll"

\* C2: every chunk for which add_audio_chunk returned True is consumed exactly
\* once: it is never handed to _process_audio_for_transcription twice, and
\* until it has been handed over it is where a room thread will take it from.
C2_ConsumedExactlyOnce ==
    \A c \in ChunkIds :
        /\ consumed[c] <= 1
        /\ (add_result[c] = "True" /\ consumed[c] = 0) => WillBeConsumed(c)

\* C3: when two add_audio_chunk calls for a room have both passed the first
\* check with no queue for the room and both have returned, one queue and one
\* thread were created for the room and both chunks were put in that queue.
C3_OneWorkerBothQueued ==
    \A p \in race :
        (\A c \in p.chunks : add_result[c] \in {"True", "False"}) =>
            /\ Cardinality(WorkersOf(p.room_id) \ p.born) = 1
            /\ \A c \in p.chunks :
                  /\ add_result[c] = "True"
                  /\ put_queue[c] \in WorkersOf(p.room_id) \ p.born

-----------------------------------------------------------------------------
(* Properties of the flush policy and of the reset after a flush *)

\* the number of the first rule of the table that the buffer state matches,
\* 0 when none does; elapsed is in milliseconds
FirstMatchingRule(elapsed, totalBytes, chunks) ==
    IF elapsed >= 30000 /\ totalBytes >= 100000 THEN 1
    ELSE IF totalBytes >= 500000 THEN 2
    ELSE IF totalBytes >= 1500000 THEN 3
    ELSE IF elapsed >= 10000 /\ totalBytes >= 200000 THEN 4
    ELSE IF elapsed >= 45000 THEN 5
    ELSE IF chunks >= 500 /\ totalBytes >= 300000 THEN 6
    ELSE 0

\* the reason the code logs for each rule of the table
ReasonOfRule ==
    <<"Whisper optimal duration", "sufficient audio data", "max buffer size",
      "minimum meaningful duration", "forced timeout",
      "substantial chunk accumulation">>

\* the chunk a thread processes next, from its queue or from the drained items
NextItem(w) ==
    IF threads[w].pc = "poll"
    THEN Head(queues[threads[w].room_queue])
    ELSE Head(threads[w].remaining_items)

\* thread w processes a chunk in this step: the chunk leaves its queue or
\* its drained items
Processes(w) ==
    /\ consumed' # consumed
    /\ \/ /\ threads[w].pc = "poll"
          /\ queues'[threads[w].room_queue] # queues[threads[w].room_queue]
       \/ /\ threads[w].pc = "drain"
          /\ threads'[w].remaining_items # threads[w].remaining_items

\* C4: whenever a thread has appended a chunk, the decision it takes is the
\* first rule of the ordered table that the buffer matches after the append,
\* with the reason of that rule; when no rule matches no flush is started and
\* the buffer keeps the chunk.
C4_FirstMatchingRuleWins ==
    [][\A w \in Workers :
          Processes(w) =>
              LET buffer_key == BufferKey(threads[w].room_id, NextItem(w).producer_id)
                  buffer == room_audio_buffers'[buffer_key]
                  rule == FirstMatchingRule(
                              buffer.last_chunk_time - buffer.first_chunk_time,
                              buffer.total_bytes, Len(buffer.chunks))
              IN IF rule = 0
                 THEN /\ threads'[w].flushing = NoFlush
                      /\ threads'[w].pc = threads[w].pc
                      /\ buffer.chunks # <<>>
                 ELSE /\ threads'[w].pc = "transcribing"
                      /\ threads'[w].flushing.path = "policy"
                      /\ threads'[w].flushing.reason = ReasonOfRule[rule]
                      /\ threads'[w].flushing.buffer = buffer]_vars

\* a flush started for rule 2 by a buffer that also matches rules 3 and 4
C4_Witness ==
    \E w \in Workers :
        /\ threads[w].pc = "transcribing"
        /\ threads[w].flushing.reason = "sufficient audio data"
        /\ threads[w].flushing.buffer.total_bytes >= 1500000
        /\ threads[w].flushing.buffer.last_chunk_time
              - threads[w].flushing.buffer.first_chunk_time >= 10000

\* C7: when a flush started by the policy returns, whatever became of it, the
\* buffer under its key has no chunks, total_bytes 0, first_chunk_time unset
\* and last_chunk_time equal to the timestamp of the last chunk appended.
C7_ResetAfterPolicyFlush ==
    [][\A w \in Workers :
          (/\ threads[w].pc = "transcribing"
           /\ threads[w].flushing.path = "policy"
           /\ threads'[w].pc # "transcribing")
          => LET f == threads[w].flushing
                 last == f.buffer.chunks[Len(f.buffer.chunks)]
             IN /\ f.buffer_key \in DOMAIN room_audio_buffers'
                /\ room_audio_buffers'[f.buffer_key].chunks = <<>>
                /\ room_audio_buffers'[f.buffer_key].total_bytes = 0
                /\ room_audio_buffers'[f.buffer_key].first_chunk_time = None
                /\ room_audio_buffers'[f.buffer_key].last_chunk_time = last.timestamp]_vars

\* a policy flush that failed before transcription has returned and the
\* buffer it was made for is empty with a baseline later than 0
C7_Witness ==
    \E f \in flush_log :
        /\ f.path = "policy"
        /\ ~f.attempt.env.tempfile
        /\ f.attempt.stores = {}
        /\ f.attempt.buffer_key \in DOMAIN room_audio_buffers
        /\ room_audio_buffers[f.attempt.buffer_key].chunks = <<>>
        /\ room_audio_buffers[f.attempt.buffer_key].last_chunk_time > 0

-----------------------------------------------------------------------------
(* Properties of what a flush stores *)

\* the decode step of the flush produced audio for Whisper
DecodeSucceeded(attempt) ==
    attempt.env.tempfile /\ FfmpegOk(attempt.env) /\ attempt.env.wav

\* C5: a flush makes store calls only if its decode succeeded and Whisper
\* returned a result that _transcribe_with_whisper accepted; a flush whose
\* decode failed, whose result was rejected or that got no result stores
\* nothing.
C5_StoreOnlyAcceptedSpeech ==
    \A f \in flush_log :
        f.attempt.stores # {} =>
            /\ DecodeSucceeded(f.attempt)
            /\ f.attempt.asr_called
            /\ ~f.attempt.env.raises
            /\ Truthy(f.attempt.whisper_text)

\* the share of the most frequent token is above 0.6
Repetitive(tokens) == MaxWordCount(tokens) * 10 > 6 * Len(tokens)

\* C6: a Whisper result is accepted, that is, its text is what the flush
\* stores, only if the trimmed text has more than 10 characters, and
\* no_speech_prob < 0.7 or some segment has no_speech_prob < 0.8, and the
\* text, when it has more than 5 tokens, is not repetitive.
C6_AcceptedNeedsAllThree ==
    \A f \in flush_log :
        (f.attempt.stores # {} /\ Truthy(f.attempt.whisper_text)) =>
            LET text == Strip(f.attempt.env.text)
                tokens == Split(text)
            IN /\ Len(text) > 10
               /\ \/ f.attempt.env.no_speech_prob < 70
                  \/ \E i \in DOMAIN f.attempt.env.segments :
                        f.attempt.env.segments[i] < 80
               /\ Len(tokens) > 5 => ~Repetitive(tokens)

-----------------------------------------------------------------------------
(* Properties of retirement *)

\* thread w has returned from _cleanup_room and its room has no queue
Retired(w) ==
    threads[w].pc = "done" /\ threads[w].room_id \notin DOMAIN room_queues

\* C8: when a room's thread has retired, no buffer of the room is left with
\* chunks in it, so that a later thread of the room starts from empty
\* buffers; this includes buffers of at most 5000 bytes.
C8_BuffersDiscardedOnRetirement ==
    \A w \in Workers :
        Retired(w) =>
            \A p \in Producers :
                GetBuffer(room_audio_buffers,
                          BufferKey(threads[w].room_id, p)) = DefaultBuffer

\* thread w has left its poll loop
LeftLoop(w) ==
    \/ threads[w].pc \in {"cleanup", "drain", "final", "done"}
    \/ threads[w].pc = "transcribing" /\ threads[w].flushing.resume # "poll"

\* C9: a thread leaves its loop without a shutdown only after 600 consecutive
\* empty polls, the counter being 0 after a dequeued chunk; once it has
\* returned its room is no longer registered to it in room_queues,
\* room_threads and active_rooms, so that the next chunk creates a new queue
\* and a new thread.
C9_IdleRetirement ==
    \A w \in Workers :
        /\ (LeftLoop(w) /\ ~shutdown_event)
              => threads[w].consecutive_empty_polls >= 600
        /\ (threads[w].pc = "transcribing" /\ threads[w].flushing.resume = "poll")
              => threads[w].consecutive_empty_polls = 0
        /\ threads[w].pc = "done" =>
              LET room_id == threads[w].room_id
              IN /\ room_id \in DOMAIN room_queues
                    => room_queues[room_id] # threads[w].room_queue
                 /\ room_id \in DOMAIN room_threads => room_threads[room_id] # w
                 /\ room_id \in active_rooms
                    => (room_id \in DOMAIN room_threads /\ room_threads[room_id] # w)

\* the final flushes in the log
FinalFlushes == {f \in flush_log : f.path = "final"}

\* C10: at retirement each buffer of the room with chunks and more than 5000
\* bytes is flushed exactly once before the room leaves the registry, and no
\* other buffer is: no buffer content is flushed by two final flushes, every
\* final flush is of a buffer with chunks and more than 5000 bytes, and a
\* retired thread leaves no such buffer of its room behind.
C10_FinalFlushExactlyOnce ==
    /\ \A f1, f2 \in FinalFlushes :
          (/\ f1.attempt.buffer_key = f2.attempt.buffer_key
           /\ f1.attempt.data = f2.attempt.data) => f1 = f2
    /\ \A f \in FinalFlushes :
          f.attempt.data # <<>> /\ f.attempt.total_bytes > 5000
    /\ \A w \in Workers :
          Retired(w) =>
              \A p \in Producers :
                  ~NeedsFinalFlush(GetBuffer(room_audio_buffers,
                                             BufferKey(threads[w].room_id, p)))

-----------------------------------------------------------------------------
(* SpecQueue: the thread of room "a" polling a queue that earlier chunks    *)
(* have filled to one below its capacity or to its capacity, while new      *)
(* chunks for the room arrive.  The earlier chunks carry the id 0 and are   *)
(* not counted in consumed.                                                 *)

QueuedItem ==
    [room_id |-> "a", producer_id |-> "c", timestamp |-> 1000,
     audio_bytes |-> [id |-> 0, len |-> 3000]]

QueueInit(n) ==
    /\ room_queues = [r \in {"a"} |-> 1]
    /\ room_threads = [r \in {"a"} |-> 1]
    /\ active_rooms = {"a"}
    /\ room_locks = {}
    /\ shutdown_event = FALSE
    /\ shutdown_call = NoShutdownCall
    /\ room_audio_buffers = EmptyDict
    /\ queues = [q \in {1} |-> [i \in 1..n |-> QueuedItem]]
    /\ threads = [w \in Workers |->
                     IF w = 1
                     THEN [UnbornThread EXCEPT !.pc = "poll", !.room_id = "a",
                                               !.room_queue = 1]
                     ELSE UnbornThread]
    /\ callers = [d \in Dispatchers |-> IdleCaller]
    /\ chunk_seq = 0
    /\ add_result = [c \in ChunkIds |-> "none"]
    /\ put_queue = [c \in ChunkIds |-> 0]
    /\ put_order = <<>>
    /\ race = {}
    /\ consumed = [c \in ChunkIds |-> 0]
    /\ flush_log = {}
    /\ buffered_audio = [w \in Workers |-> IdleBufferedAudio]
    /\ query_calls = [q \in Queries |-> "idle"]

InitQueue == \E n \in {QueueMaxSize - 1, QueueMaxSize} : QueueInit(n)

NextQueue ==
    \/ \E d \in Dispatchers, item \in RoomItems : Call(d, item)
    \/ \E d \in Dispatchers : Lookup(d)
    \/ \E d \in Dispatchers : Put(d)
    \/ \E w \in Workers : PollGet(w)

SpecQueue == InitQueue /\ [][NextQueue]_vars

-----------------------------------------------------------------------------
(* Properties of backpressure *)

\* caller d returns from a put on a queue that has no free slot
PutOnFullQueue(d) ==
    /\ callers[d].pc = "put"
    /\ callers'[d].pc = "idle"
    /\ Len(queues[callers[d].room_queue]) >= 50

\* C11: a room queue never holds more than 50 chunks, and an add_audio_chunk
\* whose put finds the queue at capacity returns False and leaves the queued
\* chunks, their order and the room's thread as they were.
C11_FullQueueDropsNewChunk ==
    /\ [](\A q \in DOMAIN queues : Len(queues[q]) <= 50)
    /\ [][\A d \in Dispatchers :
             PutOnFullQueue(d) =>
                 /\ add_result'[callers[d].audio_data.audio_bytes.id] = "False"
                 /\ queues' = queues
                 /\ threads' = threads
                 /\ room_audio_buffers' = room_audio_buffers]_vars

\* a chunk was refused, the queue holds 50 chunks and its thread is polling
C11_Witness ==
    \E c \in ChunkIds :
        /\ add_result[c] = "False"
        /\ Len(queues[1]) = 50
        /\ ~InItems(c, queues[1])
        /\ threads[1].pc = "poll"

-----------------------------------------------------------------------------
(* Properties of buffer ownership *)

\* the keys of the buffers that belong to a room
KeysOf(room_id) == {BufferKey(room_id, p) : p \in Producers}

\* C12: a buffer is read, flushed or deleted only by the thread of the room
\* it belongs to: the buffers a thread has collected for its final flush,
\* the buffer of the flush it has in flight and the buffers of the flushes
\* it has made are all buffers of its own room.
C12_BufferOwnedByOneWorker ==
    /\ \A w \in Workers :
          /\ \A entry \in threads[w].buffers_to_process :
                entry.buffer_key \in KeysOf(threads[w].room_id)
          /\ threads[w].pc = "transcribing"
                => threads[w].flushing.buffer_key \in KeysOf(threads[w].room_id)
    /\ \A f \in flush_log :
          f.attempt.buffer_key \in KeysOf(threads[f.worker].room_id)

-----------------------------------------------------------------------------
(* SpecStream: the thread of room "a" with a chunk in its queue that makes  *)
(* the policy flush, followed by further chunks, over flushes whose decode  *)
(* fails and whose store calls fail.                                        *)

\* the chunks in the queue: the first one fills the buffer, ids in put order
StreamItems(first_len, first_time, next_len) ==
    [c \in ChunkIds |->
        [room_id |-> "a", producer_id |-> "c",
         timestamp |-> IF c = 1 THEN first_time ELSE first_time + 1000 * c,
         audio_bytes |-> [id |-> c, len |-> IF c = 1 THEN first_len ELSE next_len]]]

GoodEnv == Env(TRUE, TRUE, TRUE, FALSE, "hello there everyone", 10, <<10>>)

\* stored speech; the file store fails; the collection fails; both fail;
\* both ffmpeg runs fail; the fallback ffmpeg run succeeds
StreamEnvs ==
    {GoodEnv,
     [GoodEnv EXCEPT !.file_store = FALSE],
     [GoodEnv EXCEPT !.chromadb_store = FALSE],
     [GoodEnv EXCEPT !.file_store = FALSE, !.chromadb_store = FALSE],
     [GoodEnv EXCEPT !.opus = FALSE, !.pcm = FALSE],
     [GoodEnv EXCEPT !.opus = FALSE, !.pcm = TRUE]}

StreamInit(items) ==
    /\ room_queues = [r \in {"a"} |-> 1]
    /\ room_threads = [r \in {"a"} |-> 1]
    /\ active_rooms = {"a"}
    /\ room_locks = {}
    /\ shutdown_event = FALSE
    /\ shutdown_call = NoShutdownCall
    /\ room_audio_buffers = EmptyDict
    /\ queues = [q \in {1} |-> items]
    /\ threads = [w \in Workers |->
                     IF w = 1
                     THEN [UnbornThread EXCEPT !.pc = "poll", !.room_id = "a",
                                               !.room_queue = 1]
                     ELSE UnbornThread]
    /\ callers = [d \in Dispatchers |-> IdleCaller]
    /\ chunk_seq = MaxChunks
    /\ add_result = [c \in ChunkIds |-> "True"]
    /\ put_queue = [c \in ChunkIds |-> 1]
    /\ put_order = [c \in ChunkIds |-> c]
    /\ race = {}
    /\ consumed = [c \in ChunkIds |-> 0]
    /\ flush_log = {}
    /\ buffered_audio = [w \in Workers |-> IdleBufferedAudio]
    /\ query_calls = [q \in Queries |-> "idle"]

InitStream ==
    \E first_len \in {600000, 1100000}, first_time \in {0, 1000},
       next_len \in {3000, 600000} :
        StreamInit(StreamItems(first_len, first_time, next_len))

NextStream ==
    \/ \E w \in Workers : PollGet(w)
    \/ \E w \in Workers, env \in StreamEnvs : PolicyFlushEnd(w, env)

SpecStream == InitStream /\ [][NextStream]_vars

-----------------------------------------------------------------------------
(* Properties of the order and the size of what is buffered *)

\* the ids of the chunks of a buffer
ChunkData(buffer) == [i \in DOMAIN buffer.chunks |-> buffer.chunks[i].data]

\* the place of a chunk among the puts
PutIndex(c) == CHOOSE i \in DOMAIN put_order : put_order[i] = c

\* the chunks of data were put in the order in which data lists them
InPutOrder(data) ==
    \A i, j \in DOMAIN data :
        i < j => /\ \E k \in DOMAIN put_order : put_order[k] = data[i]
                 /\ \E k \in DOMAIN put_order : put_order[k] = data[j]
                 /\ PutIndex(data[i]) < PutIndex(data[j])

\* C13: the chunks of a buffer are in the order in which add_audio_chunk put
\* them in the queue, whether they were appended in the poll loop or in the
\* drain of _cleanup_room, and what a flush submits is the chunks of the
\* buffer in that order.
C13_BufferedInPutOrder ==
    /\ \A k \in DOMAIN room_audio_buffers :
          InPutOrder(ChunkData(room_audio_buffers[k]))
    /\ \A w \in Workers :
          (threads[w].pc = "transcribing" /\ threads[w].flushing.path = "policy")
              => /\ threads[w].flushing.buffer_key \in DOMAIN room_audio_buffers
                 /\ threads[w].flushing.buffer
                       = room_audio_buffers[threads[w].flushing.buffer_key]
    /\ \A f \in flush_log : InPutOrder(f.attempt.data)

\* two chunks in one buffer, the one with the later id put and buffered first
C13_Witness ==
    /\ put_order = <<2, 1>>
    /\ \E k \in DOMAIN room_audio_buffers :
          ChunkData(room_audio_buffers[k]) = <<2, 1>>

\* the sum of the sizes of chunks[lo..hi], by halves
RECURSIVE SumRange(_, _, _)
SumRange(chunks, lo, hi) ==
    IF lo > hi THEN 0
    ELSE IF lo = hi THEN chunks[lo].size
    ELSE LET mid == (lo + hi) \div 2
         IN SumRange(chunks, lo, mid) + SumRange(chunks, mid + 1, hi)

SumSizes(chunks) == SumRange(chunks, 1, Len(chunks))

\* C14: in every state each buffer's total_bytes is the sum of the sizes of
\* the chunks it holds, and processing a chunk of at most 10 MiB leaves the
\* buffered chunks as they were with the new chunk after them.
C14_TotalBytesIsSumOfChunks ==
    /\ [](\A k \in DOMAIN room_audio_buffers :
             room_audio_buffers[k].total_bytes
                = SumSizes(room_audio_buffers[k].chunks))
    /\ [][\A w \in Workers :
             (Processes(w) /\ NextItem(w).audio_bytes.len <= 10 * 1024 * 1024) =>
                 LET buffer_key == BufferKey(threads[w].room_id,
                                             NextItem(w).producer_id)
                     before == GetBuffer(room_audio_buffers, buffer_key).chunks
                 IN room_audio_buffers'[buffer_key].chunks
                       = Append(before, [data |-> NextItem(w).audio_bytes.id,
                                         timestamp |-> NextItem(w).timestamp,
                                         size |-> NextItem(w).audio_bytes.len])]_vars

\* a chunk has been appended to a buffer that held 499 chunks
C14_Witness ==
    \E k \in DOMAIN room_audio_buffers :
        /\ Len(room_audio_buffers[k].chunks) = 500
        /\ room_audio_buffers[k].chunks[500].data = 1
        /\ room_audio_buffers[k].total_bytes > 50000

-----------------------------------------------------------------------------
(* SpecBoundary: the engine fed by handle_audio_chunk, lines 380-434.  The  *)
(* message's audioBuffer is its kind and the number of bytes it decodes to: *)
(*   "missing"   no audioBuffer, or an empty one                            *)
(*   "valid"     well-formed base64                                         *)
(*   "padding"   base64 with incorrect padding: b64decode raises            *)
(*   "alphabet"  base64 with characters outside the alphabet: b64decode     *)
(*               (validate is not set) discards them and decodes the rest   *)
(* A missing roomId is "", a missing producerId is "None".                  *)

\* the audio_item that handle_audio_chunk hands to add_audio_chunk, if any
handle_audio_chunk(audio_data) ==
    IF audio_data.audioBuffer.kind = "missing" THEN {}
    ELSE IF audio_data.audioBuffer.kind = "padding" THEN {}
    ELSE {[room_id |-> audio_data.roomId,
           producer_id |-> audio_data.producerId,
           timestamp |-> audio_data.timestamp,
           audio_bytes |-> [id |-> 0, len |-> audio_data.audioBuffer.len,
                            malformed |-> audio_data.audioBuffer.kind = "alphabet"]]}

AudioBuffers ==
    {[kind |-> "missing", len |-> 0],
     [kind |-> "valid", len |-> 600000],
     [kind |-> "valid", len |-> MAX_AUDIO_FILE_SIZE + 1],
     [kind |-> "padding", len |-> 600000],
     [kind |-> "alphabet", len |-> 6000]}

Messages ==
    {[roomId |-> r, producerId |-> p, timestamp |-> 1000, audioBuffer |-> b] :
        r \in {"a", ""}, p \in {"c", "None"}, b \in AudioBuffers}

BoundaryItems == UNION {handle_audio_chunk(audio_data) : audio_data \in Messages}

NextBoundary == Engine(BoundaryItems, RoomEnvs)

SpecBoundary == Init /\ [][NextBoundary]_vars

-----------------------------------------------------------------------------
(* Properties of the boundary *)

\* the chunks that are in a queue or with a thread that drained them
Enqueued ==
    UNION {{queues[q][i] : i \in DOMAIN queues[q]} : q \in DOMAIN queues}
    \cup UNION {{threads[w].remaining_items[i] :
                    i \in DOMAIN threads[w].remaining_items} : w \in Workers}

\* C15: a chunk whose payload exceeds 10 MiB or is malformed base64 is
\* dropped before dispatch: no room queue ever holds it and no room thread
\* dequeues it.
C15_OversizedOrMalformedNeverEnqueued ==
    \A item \in Enqueued :
        /\ item.audio_bytes.len <= 10 * 1024 * 1024
        /\ ~item.audio_bytes.malformed

\* C16: a chunk without a roomId, without a producerId or with an empty
\* payload is rejected at the boundary: it is in no queue, no thread was
\* created for it and no buffer holds it.
C16_IncompleteChunkRejected ==
    /\ \A item \in Enqueued :
          /\ item.room_id # ""
          /\ item.producer_id # "None"
          /\ item.audio_bytes.len > 0
    /\ \A w \in Workers : threads[w].pc # "unborn" => threads[w].room_id # ""
    /\ \A k \in DOMAIN room_audio_buffers :
          room_audio_buffers[k].producer_id # "None"

-----------------------------------------------------------------------------
(* Properties of a flush that fails *)

\* lines 838 and 859: the Opus run and the raw PCM run both return non-zero
BothConversionsFailed(env) == ~env.opus /\ ~env.pcm

\* the flush that a step completes, if it completes one
Completed == flush_log' \ flush_log

\* the buffer under a key has been replaced by an empty one
IsReset(buffers, buffer_key) ==
    /\ buffer_key \in DOMAIN buffers
    /\ buffers[buffer_key].chunks = <<>>
    /\ buffers[buffer_key].total_bytes = 0

\* a thread in its loop with a chunk waiting can take it
CanDequeue ==
    \A w \in Workers :
        (threads[w].pc = "poll" /\ queues[threads[w].room_queue] # <<>>)
            => ENABLED PollGet(w)

\* C17: a flush whose Opus conversion and raw-PCM conversion both fail makes
\* no call of Whisper's transcribe; when it returns the buffer is empty, the
\* thread is back in its poll loop and takes the chunks that follow.
C17_DecodeFailureDiscardsBuffer ==
    /\ [](\A f \in flush_log :
             BothConversionsFailed(f.attempt.env) => ~f.attempt.asr_called)
    /\ [][\A f \in Completed :
             BothConversionsFailed(f.attempt.env)
                => /\ IsReset(room_audio_buffers', f.attempt.buffer_key)
                   /\ threads'[f.worker].pc = "poll"
                   /\ CanDequeue']_vars

\* a flush whose two conversions failed has returned without a transcribe
\* call and the thread has taken the chunk behind it
C17_Witness ==
    \E f \in flush_log :
        /\ BothConversionsFailed(f.attempt.env)
        /\ ~f.attempt.asr_called
        /\ f.attempt.data = <<1>>
        /\ consumed[2] = 1
        /\ threads[f.worker].pc = "poll"

\* C18: when the write of the transcript file or the add to the collection
\* fails during a flush, the buffer is still reset when the flush returns and
\* the thread is back in its poll loop, where it takes the next chunk.
C18_StoreFailureKeepsReset ==
    [][\A f \in Completed :
          StoreFailed(f.attempt)
             => /\ IsReset(room_audio_buffers', f.attempt.buffer_key)
                /\ threads'[f.worker].pc = "poll"
                /\ CanDequeue']_vars

\* a flush whose file write and collection add both failed has returned, and
\* the thread has taken the chunk behind it
C18_Witness ==
    \E f \in flush_log :
        /\ \E call \in f.attempt.stores : call.sink = "file"
        /\ \E call \in f.attempt.stores : call.sink = "chromadb"
        /\ ~f.attempt.env.file_store
        /\ ~f.attempt.env.chromadb_store
        /\ f.attempt.data = <<1>>
        /\ consumed[2] = 1

-----------------------------------------------------------------------------------------------------------------------------------------------------
(* SpecShutdown: the threads of room "a" and another, each with chunks in   *)
(* its queue, together with the call of shutdown().  The caller of          *)
(* shutdown() runs on: each of its steps is taken once it can be.  Nothing  *)
(* is assumed of the room threads, so a thread may stay in a flush for ever. *)

\* the chunks in the queue of a room, ids in put order
ShutdownItems(room_id, ids, len) ==
    SelectSeq([c \in ChunkIds |->
                  [room_id |-> room_id, producer_id |-> "c", timestamp |-> 1000,
                   audio_bytes |-> [id |-> c, len |-> len]]],
              LAMBDA item : item.audio_bytes.id \in ids)

QueueOfChunk(c) == IF c % 2 = 1 THEN 1 ELSE 2

ShutdownInit(other, len_a, len_b) ==
    /\ room_queues = [r \in {"a", other} |-> IF r = "a" THEN 1 ELSE 2]
    /\ room_threads = [r \in {"a", other} |-> IF r = "a" THEN 1 ELSE 2]
    /\ active_rooms = {"a", other}
    /\ room_locks = {}
    /\ shutdown_event = FALSE
    /\ shutdown_call = NoShutdownCall
    /\ room_audio_buffers = EmptyDict
    /\ queues = [q \in {1, 2} |->
                    IF q = 1
                    THEN ShutdownItems("a", {c \in ChunkIds : QueueOfChunk(c) = 1}, len_a)
                    ELSE ShutdownItems(other, {c \in ChunkIds : QueueOfChunk(c) = 2}, len_b)]
    /\ threads = [w \in Workers |->
                     IF w \in {1, 2}
                     THEN [UnbornThread EXCEPT !.pc = "poll",
                                               !.room_id = IF w = 1 THEN "a" ELSE other,
                                               !.room_queue = w]
                     ELSE UnbornThread]
    /\ callers = [d \in Dispatchers |-> IdleCaller]
    /\ chunk_seq = MaxChunks
    /\ add_result = [c \in ChunkIds |-> "True"]
    /\ put_queue = [c \in ChunkIds |-> QueueOfChunk(c)]
    /\ put_order = [c \in ChunkIds |-> c]
    /\ race = {}
    /\ consumed = [c \in ChunkIds |-> 0]
    /\ flush_log = {}
    /\ buffered_audio = [w \in Workers |-> IdleBufferedAudio]
    /\ query_calls = [q \in Queries |-> "idle"]

InitShutdown ==
    \E len_a \in {20000, 600000}, len_b \in {20000, 600000} :
        ShutdownInit("b", len_a, len_b)

ShutdownSteps == SnapshotThreads \/ JoinThread \/ ShutdownReturn

\* the steps of the thread w
ThreadSteps(w) ==
    \/ PollGet(w)
    \/ PollEmpty(w)
    \/ SeeShutdown(w)
    \/ \E env \in RoomEnvs : PolicyFlushEnd(w, env)
    \/ CleanupEnter(w)
    \/ DrainItem(w)
    \/ Collect(w)
    \/ FinalFlushBegin(w)
    \/ \E env \in RoomEnvs : FinalFlushEnd(w, env)
    \/ RemoveRoom(w)

NextShutdown ==
    \/ \E w \in Workers : ThreadSteps(w)
    \/ Shutdown
    \/ ShutdownSteps

SpecShutdown == InitShutdown /\ [][NextShutdown]_vars /\ WF_vars(ShutdownSteps)

\* the threads that the loop of shutdown() has gone through
Joined ==
    {shutdown_call.thread_items[i] : i \in 1..shutdown_call.joined}

\* C20: shutdown() always returns, also when a room thread never ends: each
\* join is bounded, and a thread that is still alive after its join has been
\* given up with the warning.
C20_ShutdownReturns ==
    /\ shutdown_event ~> (shutdown_call.pc = "returned")
    /\ [](\A w \in Joined : IsAlive(w) => w \in shutdown_call.warned)

\* shutdown() has returned while a thread it joined is still in a flush, and
\* that thread has the warning
C20_Witness ==
    /\ shutdown_call.pc = "returned"
    /\ \E w \in Joined :
          /\ threads[w].pc = "transcribing"
          /\ w \in shutdown_call.warned

-----------------------------------------------------------------------------
(* SpecDrain: shutdown() with the threads of rooms "a" and "a_b", no chunk  *)
(* dispatched any more, and every thread running on: the flushes return and *)
(* each thread takes its next step once it can.                             *)

InitDrain ==
    \E len_a \in {20000, 600000}, len_b \in {20000, 600000} :
        ShutdownInit("a_b", len_a, len_b)

SpecDrain ==
    /\ InitDrain
    /\ [][NextShutdown]_vars
    /\ WF_vars(ShutdownSteps)
    /\ \A w \in Workers : WF_vars(ThreadSteps(w))

\* C19: once shutdown() has set the event, with flushes that return and no
\* further chunk dispatched, every room thread ends and room_queues,
\* room_threads and active_rooms become empty.
C19_ShutdownEmptiesRegistry ==
    shutdown_event ~>
        /\ \A w \in Workers : ~IsAlive(w)
        /\ DOMAIN room_queues = {}
        /\ DOMAIN room_threads = {}
        /\ active_rooms = {}

-----------------------------------------------------------------------------
(* Properties of a repeated shutdown() *)

\* a step of a call of shutdown() that is not the first
LaterShutdownStep ==
    shutdown_call' # shutdown_call /\ shutdown_call'.calls >= 2

\* C21: a second call of shutdown(), made after the first has returned, makes
\* no flush and no store call and changes neither the registry nor a buffer.
C21_ShutdownIdempotent ==
    [][LaterShutdownStep =>
          UNCHANGED <<room_queues, room_threads, active_rooms, room_locks,
                      shutdown_event, room_audio_buffers, queues, threads,
                      flush_log,
                      buffered_audio, query_calls>>]_vars

\* a second call has returned while a room is still registered with a thread
\* that is in a flush, and flushes were made before
C21_Witness ==
    /\ shutdown_call.calls = 2
    /\ shutdown_call.pc = "returned"
    /\ \E r \in DOMAIN room_threads : threads[room_threads[r]].pc = "transcribing"
    /\ flush_log # {}

-----------------------------------------------------------------------------
(* Properties of the room lock and of the flushes in flight *)

\* a thread inside the with block of _cleanup_room (lines 995-1033), in a
\* flush that it started there
FlushingUnderLock(w) ==
    /\ threads[w].pc = "transcribing"
    /\ threads[w].flushing.resume \in {"drain", "final"}

\* a call of add_audio_chunk at line 516, where it takes the lock of its room
WaitsForLock(d) ==
    /\ callers[d].pc = "acquire"
    /\ callers[d].audio_data.room_id \in room_locks

\* C22: while a room thread is blocked in decode or ASR, a call of
\* add_audio_chunk for any room still completes: it never waits for a lock
\* that is held across the blocked call.
C22_DispatchNeverWaitsForFlush ==
    \A d \in Dispatchers, w \in Workers :
        ~(/\ WaitsForLock(d)
          /\ FlushingUnderLock(w)
          /\ threads[w].room_id = callers[d].audio_data.room_id)

-----------------------------------------------------------------------------
(* SpecArrival: the engine with room "a" alone and chunks that either stay  *)
(* in the buffer until the final flush (20000 bytes) or make the policy     *)
(* flush at once (600000 bytes), arriving at any time, also while the       *)
(* thread of the room is in _cleanup_room.                                  *)

ArrivalItems ==
    {[room_id |-> "a", producer_id |-> "c", timestamp |-> 1000,
      audio_bytes |-> [id |-> 0, len |-> n]] : n \in {20000, 600000}}

ArrivalEnvs == {GoodEnv}

NextArrival == Engine(ArrivalItems, ArrivalEnvs)

SpecArrival == Init /\ [][NextArrival]_vars

\* the threads of a room that are inside _process_buffered_audio
InFlight(room_id) ==
    {w \in Workers : threads[w].pc = "transcribing" /\ threads[w].room_id = room_id}

\* C23: at any time at most one flush is in flight for a room, also while the
\* room's thread is in its final flush in _cleanup_room and a new chunk for
\* the room arrives.
C23_OneFlushInFlightPerRoom ==
    \A room_id \in Rooms : Cardinality(InFlight(room_id)) <= 1

\* the thread of room "a" is in its final flush, a chunk that arrived during
\* that flush is in the queue, and no other thread was started
C23_Witness ==
    \E w \in Workers :
        /\ threads[w].pc = "transcribing"
        /\ threads[w].flushing.path = "final"
        /\ threads[w].room_id = "a"
        /\ Len(queues[threads[w].room_queue]) = 1
        /\ consumed[1] = 1
        /\ add_result[2] = "True"
        /\ WorkersOf("a") = {w}

-----------------------------------------------------------------------------
(* Properties of the acceptance of a Whisper result, by scenario *)

\* the flush got a result from Whisper's transcribe
GotResult(attempt) ==
    DecodeSucceeded(attempt) /\ attempt.asr_called /\ ~attempt.env.raises

\* the text of Whisper's result as line 912 takes it, and its words
ResultText(attempt) == Strip(attempt.env.text)

ResultWords(attempt) == Split(Lower(ResultText(attempt)))

\* a store call of the flush carries the text of Whisper's result
StoresResult(attempt) ==
    \E call \in attempt.stores : call.text = ResultText(attempt)

\* C24: a Whisper result with more than 5 words whose most frequent word is
\* more than 60% of the words is rejected whatever no_speech_prob and the
\* segments are, also with a low no_speech_prob and a segment below 0.8.
C24_RepetitiveAlwaysRejected ==
    \A f \in flush_log :
        (/\ GotResult(f.attempt)
         /\ Len(ResultWords(f.attempt)) > 5
         /\ Repetitive(ResultWords(f.attempt)))
            => /\ ~Truthy(f.attempt.whisper_text)
               /\ ~StoresResult(f.attempt)

\* C25: a Whisper result of exactly 3 words is always rejected and never
\* stored, whatever its no_speech_prob, its segments and the length of its
\* words.
C25_ThreeWordsAlwaysRejected ==
    \A f \in flush_log :
        (GotResult(f.attempt) /\ Len(ResultWords(f.attempt)) = 3)
            => /\ ~Truthy(f.attempt.whisper_text)
               /\ ~StoresResult(f.attempt)

\* C26: when decode and Whisper succeed and the text is not empty but has at
\* most 10 characters after trimming, the flush makes no store call, neither
\* for the transcript file nor for the collection.
C26_ShortResultNotStored ==
    \A f \in flush_log :
        (/\ GotResult(f.attempt)
         /\ ResultText(f.attempt) # ""
         /\ Len(ResultText(f.attempt)) <= 10)
            => f.attempt.stores = {}

\* a flush whose result was "good night" (10 characters) with no_speech_prob
\* 1.0 and no confident segment has returned, and nothing was stored
C26_Witness ==
    \E f \in flush_log :
        /\ GotResult(f.attempt)
        /\ ResultText(f.attempt) = "good night"
        /\ f.attempt.env.no_speech_prob = 100
        /\ f.attempt.env.segments = <<80>>
        /\ f.attempt.env.chromadb
        /\ f.attempt.stores = {}

-----------------------------------------------------------------------------
(* SpecScenario: as SpecPolicy, over the buffers and chunks of the flush    *)
(* scenarios: bytes that reach 500000 within seconds, few bytes over 46 s,  *)
(* and 500 chunks of equal size.                                            *)

\* the sizes of the chunks of equal size
EqualSizes == {599, 600, 999}

ScenarioBuffers ==
    {FilledBuffer(0, 0)}
    \cup {FilledBuffer(1, total) : total \in {40000, 199999, 300000, 499999}}
    \cup {FilledBuffer(MIN_CHUNK_COUNT - 1, (MIN_CHUNK_COUNT - 1) * size) :
             size \in EqualSizes}

ScenarioItems ==
    {[room_id |-> "a", producer_id |-> "c", timestamp |-> t,
      audio_bytes |-> [id |-> 1, len |-> n]] :
        t \in {0, 1000, 2000, 9999, 10000, 29999, 44999, 45000, 46000},
        n \in {1} \cup EqualSizes \cup {10000, 300000, 600000}}

InitScenario ==
    \E audio_item \in ScenarioItems, buffer \in ScenarioBuffers :
        WorkerInit(audio_item, buffer)

SpecScenario == InitScenario /\ [][NextPolicy]_vars

-----------------------------------------------------------------------------
(* Properties of the flush scenarios.  A sequence of appends without a       *)
(* flush leaves a buffer that the policy did not flush; the next append is   *)
(* the step looked at.                                                       *)

\* the buffer after the append that thread w makes in this step
Appended(w) ==
    room_audio_buffers'[BufferKey(threads[w].room_id, NextItem(w).producer_id)]

\* the time from the buffer's first chunk to its last, in ms
Elapsed(buffer) == buffer.last_chunk_time - buffer.first_chunk_time

\* thread w starts a policy flush in this step, for this reason
StartsFlush(w) ==
    threads'[w].pc = "transcribing" /\ threads'[w].flushing.path = "policy"

FlushReason(w) == threads'[w].flushing.reason

\* rule 6 matches the buffer
ChunkCountFloor(buffer) ==
    Len(buffer.chunks) >= 500 /\ buffer.total_bytes >= 300000

\* the appends within a span of the first chunk flush exactly when they
\* bring total_bytes to 500000, with the reason of rule 2
SufficientBytesWithin(span) ==
    \A w \in Workers :
        (/\ Processes(w)
         /\ Elapsed(Appended(w)) < span
         /\ ~ChunkCountFloor(Appended(w)))
            => /\ StartsFlush(w) <=> Appended(w).total_bytes >= 500000
               /\ StartsFlush(w) => FlushReason(w) = "sufficient audio data"

\* C27: for chunks appended to an empty buffer with all timestamps less than
\* 30 s after the first, the first flush is on the append that brings
\* total_bytes to 500000 or more, unless rule 6 fired before, and its reason
\* is SufficientBytes.
C27_SufficientBytesWithin30s == [][SufficientBytesWithin(30000)]_vars

\* C27 as it holds: the same for timestamps less than 10 s after the first,
\* where rule 4 (elapsed >= 10 s and total_bytes >= 200000) cannot match.
C27_SufficientBytesWithin10s == [][SufficientBytesWithin(10000)]_vars

\* 600000 bytes within 2 s: a flush for "sufficient audio data" of two chunks
\* of 300000 bytes, 2000 ms apart
C27_Witness ==
    \E w \in Workers :
        /\ threads[w].pc = "transcribing"
        /\ threads[w].flushing.reason = "sufficient audio data"
        /\ threads[w].flushing.buffer.total_bytes = 600000
        /\ Len(threads[w].flushing.buffer.chunks) = 2
        /\ Elapsed(threads[w].flushing.buffer) = 2000

\* C28: for chunks appended to an empty buffer whose total_bytes stays below
\* 100000, the flush is on the first append whose timestamp is at least
\* 45000 ms after the first chunk's, with reason ForcedTimeout, and on no
\* earlier append.
C28_ForcedTimeoutBelow100000 ==
    [][\A w \in Workers :
          (Processes(w) /\ Appended(w).total_bytes < 100000)
             => /\ StartsFlush(w) <=> Elapsed(Appended(w)) >= 45000
                /\ StartsFlush(w) => FlushReason(w) = "forced timeout"]_vars

\* 50000 bytes over 45 s exactly: a flush for "forced timeout"
C28_Witness ==
    \E w \in Workers :
        /\ threads[w].pc = "transcribing"
        /\ threads[w].flushing.reason = "forced timeout"
        /\ threads[w].flushing.buffer.total_bytes = 50000
        /\ Elapsed(threads[w].flushing.buffer) = 45000

\* all chunks of the buffer have the size of the first
EqualSized(buffer) ==
    \A i \in DOMAIN buffer.chunks : buffer.chunks[i].size = buffer.chunks[1].size

\* C29: for chunks of equal size with less than 10 s elapsed, a buffer that
\* reaches 500 chunks with 300000 <= total_bytes < 500000 is flushed with
\* reason ChunkCountFloor.
C29_ChunkCountFloor ==
    [][\A w \in Workers :
          (/\ Processes(w)
           /\ EqualSized(Appended(w))
           /\ Elapsed(Appended(w)) < 10000
           /\ Len(Appended(w).chunks) = 500
           /\ Appended(w).total_bytes >= 300000
           /\ Appended(w).total_bytes < 500000)
             => /\ StartsFlush(w)
                /\ FlushReason(w) = "substantial chunk accumulation"]_vars

\* 500 chunks of 600 bytes within 1 s: a flush for "substantial chunk
\* accumulation" of 300000 bytes
C29_Witness ==
    \E w \in Workers :
        /\ threads[w].pc = "transcribing"
        /\ threads[w].flushing.reason = "substantial chunk accumulation"
        /\ Len(threads[w].flushing.buffer.chunks) = 500
        /\ EqualSized(threads[w].flushing.buffer)
        /\ threads[w].flushing.buffer.total_bytes = 300000
        /\ Elapsed(threads[w].flushing.buffer) = 1000

-----------------------------------------------------------------------------
(* The flush decision as a function *)

\* the decision and its reason, from the four values alone
Decision(total_bytes, chunk_count, first_chunk_time, timestamp) ==
    LET rule == FirstMatchingRule(timestamp - first_chunk_time, total_bytes,
                                  chunk_count)
    IN IF rule = 0 THEN "" ELSE ReasonOfRule[rule]

\* C30: the flush decision is a function of the buffer's total_bytes, its
\* number of chunks, its first_chunk_time and the timestamp of the chunk just
\* appended: the same four values give the same decision and reason whatever
\* the other buffers, the queue, the shutdown event and the place the thread
\* is at, and taking the decision leaves the buffer as the append made it.
C30_DecisionIsFunctionOfBuffer ==
    [][\A w \in Workers :
          (Processes(w) /\ NextItem(w).audio_bytes.len <= MAX_AUDIO_FILE_SIZE)
             => LET audio_item == NextItem(w)
                    buffer_key == BufferKey(threads[w].room_id, audio_item.producer_id)
                    buffer == AppendChunk(GetBuffer(room_audio_buffers, buffer_key),
                                          audio_item)
                    reason == Decision(buffer.total_bytes, Len(buffer.chunks),
                                       buffer.first_chunk_time, audio_item.timestamp)
                IN /\ room_audio_buffers' = DictSet(room_audio_buffers, buffer_key, buffer)
                   /\ IF reason = ""
                      THEN threads'[w].flushing = NoFlush
                      ELSE /\ threads'[w].flushing.path = "policy"
                           /\ threads'[w].flushing.reason = reason
                           /\ threads'[w].flushing.buffer = buffer]_vars

\* two threads have taken the same decision on equal values, one in its loop
\* before the shutdown and one in _cleanup_room after it
C30_Witness ==
    \E v, w \in Workers :
        /\ threads[v].pc = "transcribing"
        /\ threads[w].pc = "transcribing"
        /\ threads[v].flushing.resume = "poll"
        /\ threads[w].flushing.resume = "drain"
        /\ shutdown_event
        /\ threads[v].flushing.reason = threads[w].flushing.reason
        /\ threads[v].flushing.buffer.total_bytes = threads[w].flushing.buffer.total_bytes
        /\ Elapsed(threads[v].flushing.buffer) = Elapsed(threads[w].flushing.buffer)

-----------------------------------------------------------------------------
(* SpecChunks: the thread of room "a" with chunks in its queue from two     *)
(* producers, with timestamps that repeat, decrease or are missing, and     *)
(* with sizes up to one byte over MAX_AUDIO_FILE_SIZE.                      *)

ChunkProducers == {"c", "d"}

ChunkTimes == {None, 1000, 46000}

ChunkSizes == {3000, 600000, MAX_AUDIO_FILE_SIZE + 1}

\* the chunks in the queue, ids in put order
ChunkItems(producer_of, time_of, size_of) ==
    [c \in ChunkIds |->
        [room_id |-> "a", producer_id |-> producer_of[c], timestamp |-> time_of[c],
         audio_bytes |-> [id |-> c, len |-> size_of[c]]]]

InitChunks ==
    \E producer_of \in [ChunkIds -> ChunkProducers],
       time_of \in [ChunkIds -> ChunkTimes],
       size_of \in [ChunkIds -> ChunkSizes] :
        StreamInit(ChunkItems(producer_of, time_of, size_of))

SpecChunks == InitChunks /\ [][NextStream]_vars

-----------------------------------------------------------------------------
(* Properties of the buffers between chunks *)

\* the buffers of a room, as line 615 builds their keys
BuffersOf(room_id) ==
    {k \in DOMAIN room_audio_buffers :
        \E p \in ChunkProducers : k = BufferKey(room_id, p)}

\* C31: no buffer grows without bound: once a thread has finished processing
\* a chunk, every buffer of its room matches none of the six flush rules, in
\* particular total_bytes < 500000 and last_chunk_time - first_chunk_time
\* < 45000 ms, whatever the sizes and the timestamps of the chunks, missing
\* timestamps included.
C31_NoRuleMatchesBetweenChunks ==
    \A w \in Workers :
        threads[w].pc = "poll" =>
            \A k \in BuffersOf(threads[w].room_id) :
                LET buffer == room_audio_buffers[k]
                IN /\ buffer.total_bytes < 500000
                   /\ (buffer.first_chunk_time # None /\ buffer.last_chunk_time # None)
                         => /\ Elapsed(buffer) < 45000
                            /\ FirstMatchingRule(Elapsed(buffer), buffer.total_bytes,
                                                 Len(buffer.chunks)) = 0

\* C32: the reason "max buffer size" of rule 3 (total_bytes >= 1500000) is
\* never produced: a buffer that matches it matches rule 1 or rule 2, which
\* are tested first.
C32_MaxBytesNeverProduced ==
    /\ \A w \in Workers : threads[w].flushing.reason # "max buffer size"
    /\ \A f \in flush_log : f.reason # "max buffer size"

\* a flush of 1500000 bytes or more has returned, made for rule 1
C32_Witness ==
    \E f \in flush_log :
        /\ f.path = "policy"
        /\ f.attempt.total_bytes >= 1500000
        /\ f.reason = "Whisper optimal duration"

-----------------------------------------------------------------------------
(* SpecCleanup: the thread of room "a" with chunks in its queue, which it   *)
(* takes in its loop or, after the idle timeout or the shutdown event,      *)
(* drains in _cleanup_room.                                                 *)

InitCleanup ==
    \E first_len \in {20000, 600000}, first_time \in {0, 1000},
       next_len \in {20000, 600000} :
        StreamInit(StreamItems(first_len, first_time, next_len))

NextCleanup ==
    \/ \E w \in Workers : ThreadSteps(w)
    \/ Shutdown

SpecCleanup == InitCleanup /\ [][NextCleanup]_vars

\* thread w is past the loop of lines 1008-1011
PastDrain(w) ==
    \/ threads[w].pc \in {"final", "done"}
    \/ threads[w].pc = "transcribing" /\ threads[w].flushing.path = "final"

\* the chunks that have been processed are the first ones that were put
ConsumedInPutOrder ==
    \A i, j \in DOMAIN put_order :
        (i < j /\ consumed[put_order[j]] >= 1) => consumed[put_order[i]] = 1

\* C33: when a thread has left its loop, every chunk that was still in its
\* queue when _cleanup_room drained it is appended in FIFO order, the flush
\* policy being applied after each append, before the final flush of what
\* remains and before the room leaves the registry.
C33_DrainedChunksProcessedFirst ==
    /\ ConsumedInPutOrder
    /\ \A w \in Workers :
          /\ PastDrain(w) =>
                /\ threads[w].remaining_items = <<>>
                /\ \A c \in ChunkIds :
                      put_queue[c] = threads[w].room_queue => consumed[c] = 1
          /\ threads[w].pc = "drain" =>
                /\ threads[w].room_id \in DOMAIN room_queues
                /\ \A k \in BuffersOf(threads[w].room_id) :
                      /\ InPutOrder(ChunkData(room_audio_buffers[k]))
                      /\ FirstMatchingRule(Elapsed(room_audio_buffers[k]),
                                           room_audio_buffers[k].total_bytes,
                                           Len(room_audio_buffers[k].chunks)) = 0

\* a thread drained two chunks: the first made a policy flush during the
\* drain, the second is what the final flush is made for, and the room is
\* still registered
C33_Witness ==
    \E w \in Workers :
        /\ threads[w].pc = "transcribing"
        /\ threads[w].flushing.path = "final"
        /\ threads[w].flushing.buffer.total_bytes = 20000
        /\ ChunkData(threads[w].flushing.buffer) = <<2>>
        /\ \E f \in flush_log : f.path = "policy" /\ f.attempt.data = <<1>>
        /\ shutdown_event
        /\ consumed[1] = 1 /\ consumed[2] = 1
        /\ "a" \in DOMAIN room_queues

-----------------------------------------------------------------------------
(* Properties of the buffers of different producers *)

\* the buffers under the other keys are what they were
OthersUnchanged(buffer_key) ==
    \A k \in DOMAIN room_audio_buffers :
        k # buffer_key =>
            /\ k \in DOMAIN room_audio_buffers'
            /\ room_audio_buffers'[k] = room_audio_buffers[k]

\* thread w returns from a policy flush in this step
EndsPolicyFlush(w) ==
    /\ threads[w].pc = "transcribing"
    /\ threads[w].flushing.path = "policy"
    /\ threads'[w].pc # "transcribing"

\* C34: within a room the chunks of different producers accumulate in
\* separate buffers: the append of a chunk of one producer, and the flush and
\* the reset it leads to, leave the buffer of every other producer as it was.
C34_OtherProducersUntouched ==
    [][\A w \in Workers :
          /\ Processes(w) =>
                OthersUnchanged(BufferKey(threads[w].room_id, NextItem(w).producer_id))
          /\ EndsPolicyFlush(w) =>
                OthersUnchanged(threads[w].flushing.buffer_key)]_vars

\* producer "c" has a chunk of 3000 bytes in its buffer, and after it a chunk
\* of producer "d" was appended, flushed and its buffer reset
C34_Witness ==
    /\ BufferKey("a", "c") \in DOMAIN room_audio_buffers
    /\ BufferKey("a", "d") \in DOMAIN room_audio_buffers
    /\ ChunkData(room_audio_buffers[BufferKey("a", "c")]) = <<1>>
    /\ room_audio_buffers[BufferKey("a", "c")].total_bytes = 3000
    /\ room_audio_buffers[BufferKey("a", "d")].chunks = <<>>
    /\ \E f \in flush_log :
          f.attempt.buffer_key = BufferKey("a", "d") /\ f.attempt.data = <<2>>

-----------------------------------------------------------------------------
(* SpecLocks: the engine with rooms "a" and "b", where a flush is taken     *)
(* apart into the steps of _process_buffered_audio that take and release    *)
(* whisper_lock, chromadb_lock and embedding_lock, next to a /query request *)

\* what the steps inside _process_buffered_audio leave alone
engine_vars ==
    <<room_queues, room_threads, active_rooms, room_locks, shutdown_event,
      shutdown_call, room_audio_buffers, queues, threads, callers, chunk_seq,
      add_result, put_queue, put_order, race, consumed, flush_log>>

\* the call that thread w is in, as it will have gone
Attempt(w) ==
    process_buffered_audio(threads[w].flushing.buffer_key, threads[w].room_id,
                           threads[w].flushing.buffer, buffered_audio[w].env)

\* lines 218-240: the texts to encode, the transcription and its segments;
\* the simulated transcription has no segments (line 743)
TextsToEncode(w) ==
    1 + (IF Truthy(Attempt(w).whisper_text)
         THEN Len(buffered_audio[w].env.segments) ELSE 0)

\* the with blocks of lines 885, 197, 202 and 240: thread w is inside
WorkerHolds(w, lock) ==
    CASE lock = "whisper_lock" -> buffered_audio[w].pc = "whisper"
      [] lock = "chromadb_lock" ->
            buffered_audio[w].pc \in {"embedding_wait", "embedding", "add"}
      [] lock = "embedding_lock" -> buffered_audio[w].pc = "embedding"

\* a request that takes embedding_lock first and chromadb_lock inside it
QueryLockOrderInverted == <<"embedding_lock", "chromadb_lock">>

\* lines 1606 and 1610: the outer and the inner with block of a request
QueryLockOrder == <<"chromadb_lock", "embedding_lock">>

\* the with blocks of lines 1606 and 1610: request q is inside
QueryHolds(q, lock) ==
    \/ /\ lock = QueryLockOrder[1]
       /\ query_calls[q] \in {"embedding_wait", "embedding", "query"}
    \/ /\ lock = QueryLockOrder[2]
       /\ query_calls[q] = "embedding"

\* a threading.Lock that nobody holds
Free(lock) ==
    /\ \A w \in Workers : ~WorkerHolds(w, lock)
    /\ \A q \in Queries : ~QueryHolds(q, lock)

\* lines 701-728: the call starts: an empty buffer returns at once, a
\* temporary file that cannot be written ends the call in the handler of
\* line 772, without Whisper the simulated text is stored
BufferedAudioCall(w, env) ==
    /\ threads[w].pc = "transcribing"
    /\ buffered_audio[w].pc = "idle"
    /\ buffered_audio' =
          [buffered_audio EXCEPT ![w] =
              [pc |-> IF threads[w].flushing.buffer.chunks = <<>> \/ ~env.tempfile
                      THEN "returned"
                      ELSE IF env.whisper THEN "decode" ELSE "store",
               env |-> env, encoded |-> 0]]
    /\ UNCHANGED <<engine_vars, query_calls>>

\* lines 836-883: ffmpeg has run, no lock is held
Decode(w) ==
    /\ buffered_audio[w].pc = "decode"
    /\ buffered_audio' =
          [buffered_audio EXCEPT ![w].pc =
              IF Attempt(w).asr_called THEN "whisper_wait" ELSE "store"]
    /\ UNCHANGED <<engine_vars, query_calls>>

\* line 885: with whisper_lock
WhisperAcquire(w) ==
    /\ buffered_audio[w].pc = "whisper_wait"
    /\ Free("whisper_lock")
    /\ buffered_audio' = [buffered_audio EXCEPT ![w].pc = "whisper"]
    /\ UNCHANGED <<engine_vars, query_calls>>

\* lines 886-990: transcribe and the acceptance filter, then the with block
\* is left, by a return or by an exception
WhisperRelease(w) ==
    /\ buffered_audio[w].pc = "whisper"
    /\ buffered_audio' = [buffered_audio EXCEPT ![w].pc = "store"]
    /\ UNCHANGED <<engine_vars, query_calls>>

\* lines 746-758: the file store, which takes none of these locks, and the
\* call of store_transcription_in_chromadb
StoreMetadata(w) ==
    /\ buffered_audio[w].pc = "store"
    /\ buffered_audio' =
          [buffered_audio EXCEPT ![w].pc =
              IF \E call \in Attempt(w).stores : call.sink = "chromadb"
              THEN "chromadb_wait" ELSE "returned"]
    /\ UNCHANGED <<engine_vars, query_calls>>

\* line 197: with chromadb_lock
ChromadbAcquire(w) ==
    /\ buffered_audio[w].pc = "chromadb_wait"
    /\ Free("chromadb_lock")
    /\ buffered_audio' = [buffered_audio EXCEPT ![w].pc = "embedding_wait"]
    /\ UNCHANGED <<engine_vars, query_calls>>

\* lines 202 and 240: with embedding_lock, inside the block of chromadb_lock
EmbeddingAcquire(w) ==
    /\ buffered_audio[w].pc = "embedding_wait"
    /\ Free("embedding_lock")
    /\ buffered_audio' = [buffered_audio EXCEPT ![w].pc = "embedding"]
    /\ UNCHANGED <<engine_vars, query_calls>>

\* lines 203 and 241: the text is encoded and the inner block is left
EmbeddingRelease(w) ==
    /\ buffered_audio[w].pc = "embedding"
    /\ buffered_audio' = [buffered_audio EXCEPT ![w].pc = "add",
                                                ![w].encoded = @ + 1]
    /\ UNCHANGED <<engine_vars, query_calls>>

\* lines 225-263: the collection takes the text; after the last one, or
\* when it raises, the block of chromadb_lock is left
ChromadbAdd(w) ==
    /\ buffered_audio[w].pc = "add"
    /\ buffered_audio' =
          [buffered_audio EXCEPT ![w].pc =
              IF /\ buffered_audio[w].env.chromadb_store
                 /\ buffered_audio[w].encoded < TextsToEncode(w)
              THEN "embedding_wait" ELSE "returned"]
    /\ UNCHANGED <<engine_vars, query_calls>>

\* lines 676-686 and 1023-1024: the call is over
BufferedAudioReturn(w) ==
    /\ buffered_audio[w].pc = "returned"
    /\ \/ PolicyFlushEnd(w, buffered_audio[w].env)
       \/ FinalFlushEnd(w, buffered_audio[w].env)

\* lines 1592-1606: a request with a query, the models being there
QueryCall(q) ==
    /\ query_calls[q] = "idle"
    /\ query_calls' = [query_calls EXCEPT ![q] = "chromadb_wait"]
    /\ UNCHANGED <<engine_vars, buffered_audio>>

\* line 1606: with chromadb_lock
QueryChromadbAcquire(q) ==
    /\ query_calls[q] = "chromadb_wait"
    /\ Free(QueryLockOrder[1])
    /\ query_calls' = [query_calls EXCEPT ![q] = "embedding_wait"]
    /\ UNCHANGED <<engine_vars, buffered_audio>>

\* line 1610: with embedding_lock
QueryEmbeddingAcquire(q) ==
    /\ query_calls[q] = "embedding_wait"
    /\ Free(QueryLockOrder[2])
    /\ query_calls' = [query_calls EXCEPT ![q] = "embedding"]
    /\ UNCHANGED <<engine_vars, buffered_audio>>

\* line 1611: the query is encoded and the inner block is left
QueryEmbeddingRelease(q) ==
    /\ query_calls[q] = "embedding"
    /\ query_calls' = [query_calls EXCEPT ![q] = "query"]
    /\ UNCHANGED <<engine_vars, buffered_audio>>

\* lines 1619-1626: the collection is queried and the outer block is left
QueryChromadbRelease(q) ==
    /\ query_calls[q] = "query"
    /\ query_calls' = [query_calls EXCEPT ![q] = "idle"]
    /\ UNCHANGED <<engine_vars, buffered_audio>>

\* chunks of room "a" that the policy flushes, chunks of room "b" that stay
\* in the buffer until the final flush
LockItems ==
    {[room_id |-> r, producer_id |-> "c", timestamp |-> 1000,
      audio_bytes |-> [id |-> 0, len |-> IF r = "a" THEN 600000 ELSE 20000]] :
        r \in {"a", "b"}}

\* stored speech with one segment; both ffmpeg runs fail
LockEnvs == {GoodEnv, [GoodEnv EXCEPT !.opus = FALSE, !.pcm = FALSE]}

\* the steps of add_audio_chunk
DispatcherSteps(d) ==
    \/ \E item \in LockItems : Call(d, item)
    \/ LockedCreate(d)
    \/ StartThread(d)
    \/ Lookup(d)
    \/ Put(d)

\* the steps of a room thread inside _process_buffered_audio
BufferedAudioSteps(w) ==
    \/ Decode(w)
    \/ WhisperAcquire(w)
    \/ WhisperRelease(w)
    \/ StoreMetadata(w)
    \/ ChromadbAcquire(w)
    \/ EmbeddingAcquire(w)
    \/ EmbeddingRelease(w)
    \/ ChromadbAdd(w)

\* the steps of a room thread
WorkerSteps(w) ==
    \/ PollGet(w)
    \/ PollEmpty(w)
    \/ SeeShutdown(w)
    \/ CleanupEnter(w)
    \/ DrainItem(w)
    \/ Collect(w)
    \/ FinalFlushBegin(w)
    \/ RemoveRoom(w)
    \/ \E env \in LockEnvs : BufferedAudioCall(w, env)
    \/ BufferedAudioSteps(w)
    \/ BufferedAudioReturn(w)

\* the steps of a /query request
QuerySteps(q) ==
    \/ QueryCall(q)
    \/ QueryChromadbAcquire(q)
    \/ QueryEmbeddingAcquire(q)
    \/ QueryEmbeddingRelease(q)
    \/ QueryChromadbRelease(q)

NextLocks ==
    \/ \E d \in Dispatchers : DispatcherSteps(d)
    \/ \E w \in Workers : WorkerSteps(w)
    \/ \E q \in Queries : QuerySteps(q)
    \/ Shutdown

SpecLocks == Init /\ [][NextLocks]_vars

-----------------------------------------------------------------------------
(* Properties of the locks *)

\* the threads inside the transcribe call of line 896
InTranscribe == {w \in Workers : WorkerHolds(w, "whisper_lock")}

\* thread w stands at line 885 and another thread is inside the block
WaitsForWhisper(w) ==
    buffered_audio[w].pc = "whisper_wait" /\ ~Free("whisper_lock")

\* thread w is inside the with block of _cleanup_room (lines 995-1033)
HoldsRoomLock(w) ==
    /\ threads[w].room_id \in room_locks
    /\ \/ threads[w].pc \in {"drain", "final"}
       \/ FlushingUnderLock(w)

\* C35: at most one room thread is inside the Whisper transcribe call at any
\* time, and a thread that waits for whisper_lock holds no lock that
\* add_audio_chunk may need, that is, not the lock of its room.
C35_WhisperExclusiveAndWaitLockFree ==
    /\ Cardinality(InTranscribe) <= 1
    /\ \A w \in Workers : WaitsForWhisper(w) => ~HoldsRoomLock(w)

\* the part of C35 on the exclusion alone
WhisperExclusive == Cardinality(InTranscribe) <= 1

\* two threads run ffmpeg at once
DecodesOverlap ==
    \E v, w \in Workers :
        v # w /\ buffered_audio[v].pc = "decode" /\ buffered_audio[w].pc = "decode"

Locks == {"whisper_lock", "chromadb_lock", "embedding_lock"}

\* thread w stands at a with statement whose lock is held
WorkerBlockedOn(w, lock) ==
    /\ ~Free(lock)
    /\ buffered_audio[w].pc =
          (CASE lock = "whisper_lock" -> "whisper_wait"
             [] lock = "chromadb_lock" -> "chromadb_wait"
             [] lock = "embedding_lock" -> "embedding_wait")

\* request q stands at a with statement whose lock is held
QueryBlockedOn(q, lock) ==
    /\ ~Free(lock)
    /\ \/ lock = QueryLockOrder[1] /\ query_calls[q] = "chromadb_wait"
       \/ lock = QueryLockOrder[2] /\ query_calls[q] = "embedding_wait"

\* thread w stands at line 995 and the lock of its room is held
BlockedOnRoomLock(w) ==
    threads[w].pc = "cleanup" /\ threads[w].room_id \in room_locks

\* thread w waits for no lock
WorkerRuns(w) ==
    /\ ~BlockedOnRoomLock(w)
    /\ \A lock \in Locks : ~WorkerBlockedOn(w, lock)

\* request q waits for no lock
QueryRuns(q) == \A lock \in Locks : ~QueryBlockedOn(q, lock)

\* the thread that holds the lock waits for no lock
HolderRuns(lock) ==
    \/ \E w \in Workers : WorkerHolds(w, lock) /\ WorkerRuns(w)
    \/ \E q \in Queries : QueryHolds(q, lock) /\ QueryRuns(q)

\* the thread that holds the lock waits for no lock, or for a lock whose
\* holder waits for none
HolderAdvances(lock) ==
    \/ HolderRuns(lock)
    \/ \E w \in Workers, inner \in Locks :
          WorkerHolds(w, lock) /\ WorkerBlockedOn(w, inner) /\ HolderRuns(inner)
    \/ \E q \in Queries, inner \in Locks :
          QueryHolds(q, lock) /\ QueryBlockedOn(q, inner) /\ HolderRuns(inner)

\* the same for the lock of a room, held by the thread in _cleanup_room
\* (line 995) or by a caller in get_or_create_room_queue (line 516), who
\* waits for nothing until line 533
RoomLockAdvances(room_id) ==
    \/ \E d \in Dispatchers :
          /\ callers[d].pc = "thread"
          /\ callers[d].audio_data.room_id = room_id
    \/ \E w \in Workers :
          /\ threads[w].room_id = room_id
          /\ HoldsRoomLock(w)
          /\ \/ WorkerRuns(w)
             \/ \E lock \in Locks : WorkerBlockedOn(w, lock) /\ HolderAdvances(lock)

\* C36: no interleaving of room threads, callers of add_audio_chunk,
\* shutdown and /query requests deadlocks on the locks: whenever a thread
\* waits for a lock, the holder of that lock waits for none, or waits for
\* one whose holder advances in this way, so that no threads wait for each
\* other in a circle; whisper_lock is held with no other of the three
\* locks, and embedding_lock only inside chromadb_lock.
C36_NoDeadlockOnLocks ==
    /\ \A w \in Workers, lock \in Locks :
          WorkerBlockedOn(w, lock) => HolderAdvances(lock)
    /\ \A q \in Queries, lock \in Locks :
          QueryBlockedOn(q, lock) => HolderAdvances(lock)
    /\ \A d \in Dispatchers :
          WaitsForLock(d) => RoomLockAdvances(callers[d].audio_data.room_id)
    /\ \A w \in Workers :
          BlockedOnRoomLock(w) => RoomLockAdvances(threads[w].room_id)
    /\ \A w \in Workers :
          /\ WorkerHolds(w, "whisper_lock") =>
                ~WorkerHolds(w, "chromadb_lock") /\ ~WorkerHolds(w, "embedding_lock")
          /\ WorkerHolds(w, "embedding_lock") => WorkerHolds(w, "chromadb_lock")
    /\ \A q \in Queries :
          QueryHolds(q, "embedding_lock") => QueryHolds(q, "chromadb_lock")

\* a caller waits for the lock of a room whose thread, in its final flush,
\* waits for chromadb_lock, which a request holds together with embedding_lock
C36_Witness ==
    \E d \in Dispatchers, w \in Workers, q \in Queries :
        /\ WaitsForLock(d)
        /\ threads[w].room_id = callers[d].audio_data.room_id
        /\ HoldsRoomLock(w)
        /\ WorkerBlockedOn(w, "chromadb_lock")
        /\ QueryHolds(q, "embedding_lock")

-----------------------------------------------------------------------------
(* Properties of the registry *)

\* a caller is inside the with block of get_or_create_room_queue for the
\* room (lines 516-533)
InCreation(room_id) ==
    \E d \in Dispatchers :
        callers[d].pc = "thread" /\ callers[d].audio_data.room_id = room_id

\* a thread is inside _cleanup_room for the room (lines 992-1036)
InCleanup(room_id) ==
    \E w \in Workers :
        /\ threads[w].room_id = room_id
        /\ \/ threads[w].pc \in {"cleanup", "drain", "final"}
           \/ FlushingUnderLock(w)

\* room_queues, room_threads and active_rooms agree on the room, and a room
\* they hold has a thread that has not exited
RegistryConsistent(room_id) ==
    /\ room_id \in DOMAIN room_queues <=> room_id \in DOMAIN room_threads
    /\ room_id \in DOMAIN room_queues <=> room_id \in active_rooms
    /\ room_id \in DOMAIN room_threads => IsAlive(room_threads[room_id])

\* C37: whenever no thread is inside the creation critical section or inside
\* _cleanup_room for a room, room_queues, room_threads and active_rooms
\* agree on the room and a registered room has a thread that has not
\* exited: no thread terminates and leaves its room's entry behind.
C37_RegistryAgreesWithThreads ==
    \A room_id \in Rooms :
        ~InCreation(room_id) /\ ~InCleanup(room_id) => RegistryConsistent(room_id)

-----------------------------------------------------------------------------
(* SpecOversize: the engine with room "a" alone and chunks of 20000 bytes,  *)
(* of 600000 bytes and of one byte more than MAX_AUDIO_FILE_SIZE            *)

OversizeItems ==
    {[room_id |-> "a", producer_id |-> "c", timestamp |-> 1000,
      audio_bytes |-> [id |-> 0, len |-> n]] :
        n \in {20000, 600000, MAX_AUDIO_FILE_SIZE + 1}}

OversizeEnvs == {GoodEnv}

NextOversize == Engine(OversizeItems, OversizeEnvs)

SpecOversize == Init /\ [][NextOversize]_vars

\* the chunk that thread w takes is larger than 10 MiB
TakesOversize(w) ==
    Processes(w) /\ NextItem(w).audio_bytes.len > 10 * 1024 * 1024

\* C38: a chunk larger than 10 MiB that a thread takes from its queue is
\* skipped: no buffer is created or changed, no flush is started or logged,
\* and the thread goes on where it was, in its loop with the count of empty
\* polls at 0.
C38_OversizeChunkSkipped ==
    [][\A w \in Workers :
          TakesOversize(w) =>
              /\ room_audio_buffers' = room_audio_buffers
              /\ flush_log' = flush_log
              /\ threads'[w].flushing = NoFlush
              /\ threads'[w].pc = threads[w].pc
              /\ threads[w].pc = "poll" => threads'[w].consecutive_empty_polls = 0]_vars

\* the first chunk was taken by a thread that is in its loop with the second
\* chunk waiting, and no buffer exists and no flush was made
C38_Witness ==
    \E w \in Workers :
        /\ threads[w].pc = "poll"
        /\ consumed[1] = 1
        /\ queues[threads[w].room_queue] # <<>>
        /\ threads[w].consecutive_empty_polls = 0
        /\ room_audio_buffers = EmptyDict
        /\ flush_log = {}

-----------------------------------------------------------------------------
(* Properties of first_chunk_time *)

\* every chunk of the buffer carries a timestamp
Timestamped(buffer) ==
    \A i \in DOMAIN buffer.chunks : buffer.chunks[i].timestamp # None

\* C39: in every reachable state, for chunks that carry a timestamp, the
\* first_chunk_time of a buffer is unset exactly when the buffer holds no
\* chunks, and when set it is the timestamp of the first chunk appended
\* since the last reset, whatever was appended after it.
C39_FirstChunkTimeIsFirstTimestamp ==
    \A k \in DOMAIN room_audio_buffers :
        LET buffer == room_audio_buffers[k]
        IN Timestamped(buffer) =>
              /\ buffer.first_chunk_time = None <=> buffer.chunks = <<>>
              /\ buffer.chunks # <<>> =>
                    buffer.first_chunk_time = buffer.chunks[1].timestamp

\* a buffer holds two chunks with different timestamps and has the first
\* one's as its first_chunk_time
C39_Witness ==
    \E k \in DOMAIN room_audio_buffers :
        LET buffer == room_audio_buffers[k]
        IN /\ Len(buffer.chunks) = 2
           /\ buffer.chunks[1].timestamp = 1000
           /\ buffer.chunks[2].timestamp = 46000
           /\ buffer.first_chunk_time = 1000
           /\ buffer.last_chunk_time = 46000

====
